---- MODULE Spec2Model ----
(***************************************************************************)
(* gigaview: the tile cache (memory LRU, file, no-op), the tile renderer   *)
(* and the warmup scheduler, as state machines.                            *)
(*                                                                         *)
(* Specifications                                                          *)
(*   SpecCache   one cache backend driven by arbitrary Get/Set/Has/Clear   *)
(*               calls, each call one critical section.                    *)
(*   SpecFile    the file cache with Set taken step by step (lock, mkdir,  *)
(*               temporary write, rename) by the goroutines of one         *)
(*               process, which may be killed and restarted at any step.   *)
(*   SpecRender  Renderer.RenderTile called concurrently by goroutines     *)
(*               over a catalog and one cache backend.                     *)
(*   SpecWarmup  main's warmupTiles: the submission loop, the slot         *)
(*               channel, the wait group and the render tasks.             *)
(*   SpecWarmupFair  SpecWarmup with the Go scheduler's fairness.          *)
(*   SpecMeta, SpecTiles  GetImageMeta and the geometry of RenderTile      *)
(*               over images of several sizes.                             *)
(*   SpecDir     the file cache across restarts of its process.            *)
(*   SpecNoop    RenderTile over the disabled cache.                       *)
(*   SpecMem     MemoryCache method by method under its RWMutex, the list  *)
(*               pointer by pointer.                                       *)
(*   SpecShare   FileCache.Set by processes sharing one cache directory.   *)
(*   SpecHttp    the tile handler beside the warmup.                       *)
(*   SpecScan    tile requests while an upload rescans the data directory. *)
(***************************************************************************)
EXTENDS Integers, Sequences, FiniteSets, TLC

VARIABLES
    \* cache.NewCache: the backend in use and its state
    cacheType,      \* "memory" | "file" | "disabled"
    maxSize,        \* MemoryCache.maxSize
    items,          \* MemoryCache.items: TileKey -> the entry of its list element
    lruList,        \* MemoryCache.lruList: entries, front first
    fs,             \* the files under FileCache.cacheDir: path -> bytes
    \* history of the cache calls (not program state)
    clock,          \* number of accesses so far
    lastUse,        \* TileKey -> clock value of its latest Set or hitting Get
    lastSet,        \* TileKey -> bytes of the latest Set call for it
    lastStored,     \* TileKey -> bytes of the latest Set call that stored them
    cLast,          \* the latest cache call and what it returned
    \* FileCache.Set step by step
    fcMu,           \* FileCache.mu: the goroutine holding the write lock
    fcPc,           \* goroutine -> where it is in FileCache.Set
    fcArg,          \* goroutine -> the key and value of its Set, bytes written
    fcDone,         \* history: <<key, value>> of every Set whose rename succeeded
    fcAborted,      \* history: keys whose Set was cut short by a kill
    fcLast,         \* the latest FileCache.Get and what it returned
    \* Scanner and Renderer
    images,         \* Scanner.images: the catalog
    rtPc,           \* goroutine -> where it is in RenderTile
    rtCall,         \* goroutine -> the arguments and locals of its RenderTile
    rtResult,       \* goroutine -> what its RenderTile returned
    rtMeta,         \* the latest GetImageMeta call and what it returned
    \* main and warmupTiles
    wuLevels,       \* cfg.WarmupLevels
    wuWorkers,      \* cfg.WarmupWorkers
    wuPlan,         \* the tiles the loops of warmupTiles enumerate, in order
    wuPc,           \* where warmupTiles is
    wuNext,         \* index of the tile the submission loop is at
    workerChan,     \* number of slots held in workerChan
    wg,             \* the WaitGroup counter
    wuTask,         \* tile index -> state of its goroutine
    wuFailed,       \* history: tile indices whose render returned an error
    \* MemoryCache method by method, its list pointer by pointer
    mcMu,           \* MemoryCache.mu: the goroutine holding Lock, those holding RLock
    mcPc,           \* goroutine -> where it is in a MemoryCache method
    mcArg,          \* goroutine -> the method it runs, its key and value
    mcList,         \* MemoryCache.lruList: next and prev of each element, len
    \* FileCache.Set by the processes that share one cache directory
    shMu,           \* process -> the goroutine holding its FileCache.mu
    shPc,           \* goroutine -> where it is in FileCache.Set
    shArg,          \* goroutine -> its value, bytes written, where its open file is
    \* the HTTP handlers
    httpReq,        \* goroutine -> the tile request it serves or served last
    httpResp,       \* goroutine -> the response it wrote last
    \* the data directory and Scanner.Scan
    disk,           \* the images of dataDir that have metadata, in ReadDir order
    scPc,           \* where the upload handler is
    scAt            \* Scan: index of the directory entry its loop is at

cacheVars == <<cacheType, maxSize, items, lruList, fs>>
histVars == <<clock, lastUse, lastSet, lastStored, cLast>>
fileVars == <<fcMu, fcPc, fcArg, fcDone, fcAborted, fcLast>>
renderVars == <<images, rtPc, rtCall, rtResult, rtMeta>>
warmupVars == <<wuLevels, wuWorkers, wuPlan, wuPc, wuNext, workerChan, wg, wuTask, wuFailed>>
memVars == <<mcMu, mcPc, mcArg, mcList>>
\* the state only the later specifications move
shareVars == <<shMu, shPc, shArg>>
httpVars == <<httpReq, httpResp>>
scanVars == <<disk, scPc, scAt>>
serverVars == <<httpVars, scanVars>>
restVars == <<memVars, shareVars, serverVars>>
vars == <<cacheVars, histVars, fileVars, renderVars, warmupVars, restVars>>

----------------------------------------------------------------------------
(* Bounds *)

\* largest CACHE_MEMORY_TILES tried
MaxTiles == 3
\* accesses followed by the history
MaxClock == 5

\* process restarts followed on one cache directory
MaxRestarts == 1
\* largest WARMUP_LEVELS tried
MaxLevels == 1
\* largest WARMUP_WORKERS tried
MaxWorkers == 2

None == "none"
\* a nil []byte
NoValue == <<>>

----------------------------------------------------------------------------
(* cache.TileKey and the values stored *)

TileKey(id, tileSize, maxZoom, z, x, y, format) ==
    [ImageID |-> id, TileSize |-> tileSize, MaxZoom |-> maxZoom,
     Z |-> z, X |-> x, Y |-> y, Format |-> format]

\* the zero TileKey, where no key was built
NilKey == TileKey("", 0, 0, 0, 0, 0, "")

\* keys that differ from one another in a single field or in several
CacheKeys ==
    { TileKey("a", 256, 1, 1, 0, 0, "jpeg"),
      TileKey("a", 256, 1, 1, 1, 0, "jpeg"),
      TileKey("a", 256, 1, 0, 0, 0, "jpeg") }

\* the keys written in the file cache
FileKeys == { TileKey("a", 256, 1, 1, 0, 0, "jpeg"), TileKey("a", 256, 1, 1, 1, 0, "jpeg") }

\* byte strings stored by SpecCache
CacheValues == { <<1>>, <<2>> }

\* byte strings stored by SpecFile: one of two bytes, one of one byte
FileValues == { <<1, 2>>, <<3>> }

----------------------------------------------------------------------------
(* MemoryCache *)

NewEntry(key, value) == [key |-> key, value |-> value]

\* container/list MoveToFront of the element items[key] points at
MoveToFront(lst, elem) ==
    <<elem>> \o SelectSeq(lst, LAMBDA e : e.key # elem.key)

\* container/list Back: the last element (of a list that has one)
Back(lst) == lst[Len(lst)]

\* container/list Remove of the element e
Remove(lst, e) == SelectSeq(lst, LAMBDA x : x.key # e.key)

PushFront(lst, ent) == <<ent>> \o lst

\* delete(m, key)
MapDelete(m, key) == [k \in (DOMAIN m) \ {key} |-> m[k]]

MapPut(m, key, v) == [k \in (DOMAIN m) \cup {key} |-> IF k = key THEN v ELSE m[k]]

EmptyMap == [k \in {} |-> None]

McHas(its, key) == key \in DOMAIN its

\* MemoryCache.Get that leaves the recency list as it is
McGetNoPromote(its, lst, key) ==
    IF key \notin DOMAIN its
    THEN [found |-> FALSE, value |-> NoValue, items |-> its, lruList |-> lst]
    ELSE [found |-> TRUE, value |-> its[key].value, items |-> its, lruList |-> lst]

\* MemoryCache.Get: [found, value, items, lruList]
McGet(its, lst, key) ==
    IF key \notin DOMAIN its
    THEN [found |-> FALSE, value |-> NoValue, items |-> its, lruList |-> lst]
    ELSE [found |-> TRUE, value |-> its[key].value,
          items |-> its, lruList |-> MoveToFront(lst, its[key])]

\* the eviction test of MemoryCache.Set
McFull(lst, max) == Len(lst) >= max

\* MemoryCache.Set: [items, lruList]
\* a Set that treats a key already present as a new one
McSetAsNew(its, lst, max, key, value) ==
    LET evict == McFull(lst, max) /\ Len(lst) > 0
        its1 == IF evict THEN MapDelete(its, Back(lst).key) ELSE its
        lst1 == IF evict THEN Remove(lst, Back(lst)) ELSE lst
        ent == NewEntry(key, value)
    IN  [items |-> MapPut(its1, key, ent),
         lruList |-> PushFront(lst1, ent)]

McSet(its, lst, max, key, value) ==
    IF key \in DOMAIN its
    THEN LET ent == [its[key] EXCEPT !.value = value]
         IN  [items |-> MapPut(its, key, ent),
              lruList |-> MoveToFront(lst, ent)]
    ELSE LET evict == McFull(lst, max) /\ Len(lst) > 0   \* oldest != nil
             its1 == IF evict THEN MapDelete(its, Back(lst).key) ELSE its
             lst1 == IF evict THEN Remove(lst, Back(lst)) ELSE lst
             ent == NewEntry(key, value)
         IN  [items |-> MapPut(its1, key, ent),
              lruList |-> PushFront(lst1, ent)]

\* MemoryCache.Clear: [items, lruList]
McClear == [items |-> EmptyMap, lruList |-> <<>>]

----------------------------------------------------------------------------
(* FileCache *)

\* a buildFilePath that leaves the column out of the file name
buildFilePathNoX(key) ==
    key.ImageID \o "_" \o ToString(key.TileSize) \o "_" \o ToString(key.MaxZoom)
      \o "/" \o ToString(key.Z) \o "/" \o ToString(key.Y) \o "." \o key.Format

\* FileCache.buildFilePath, relative to cacheDir:
\* {imageID}_{tileSize}_{maxZoom}/{z}/{x}_{y}.{format}
buildFilePath(key) ==
    LET dirName == key.ImageID \o "_" \o ToString(key.TileSize) \o "_"
                     \o ToString(key.MaxZoom)
        dir == dirName \o "/" \o ToString(key.Z)
        fileName == ToString(key.X) \o "_" \o ToString(key.Y) \o "."
                      \o key.Format
    IN  dir \o "/" \o fileName

\* tmpPath := filePath + ".tmp"
TmpPath(filePath) == filePath \o ".tmp"

\* a Set that writes the bytes straight to the final path
WriteInPlace(filePath) == filePath

\* the path FileCache.Set writes the bytes to before the rename
WritePath(filePath) == TmpPath(filePath)

\* os.ReadFile in FileCache.Get; an error is a miss: [found, value]
FcGet(fsys, key) ==
    LET filePath == buildFilePath(key)
    IN  IF filePath \in DOMAIN fsys
        THEN [found |-> TRUE, value |-> fsys[filePath]]
        ELSE [found |-> FALSE, value |-> NoValue]

\* os.WriteFile(path, data): create or truncate, then write; an error may
\* leave the file with any proper prefix of data, or untouched when the
\* open itself failed.  The set of [fs, ok].
FcWriteFile(fsys, path, data) ==
    { [fs |-> MapPut(fsys, path, data), ok |-> TRUE] }
    \cup { [fs |-> fsys, ok |-> FALSE] }
    \cup { [fs |-> MapPut(fsys, path, SubSeq(data, 1, n)), ok |-> FALSE] :
             n \in 0 .. (Len(data) - 1) }

\* a rename done as a copy: an error may leave the start of the bytes at to
FcRenameByCopy(fsys, from, to) ==
    { [fs |-> MapPut(MapDelete(fsys, from), to, fsys[from]), ok |-> TRUE],
      [fs |-> fsys, ok |-> FALSE] }
    \cup { [fs |-> MapPut(fsys, to, SubSeq(fsys[from], 1, n)), ok |-> FALSE] :
             n \in 0 .. (Len(fsys[from]) - 1) }

\* os.Rename(from, to): atomic replacement of to, or an error and no change
FcRename(fsys, from, to) ==
    { [fs |-> MapPut(MapDelete(fsys, from), to, fsys[from]), ok |-> TRUE],
      [fs |-> fsys, ok |-> FALSE] }

\* os.Remove(path)
FcRemove(fsys, path) == MapDelete(fsys, path)

\* FileCache.Set as one critical section: the set of [fs, stored].
\* MkdirAll creates directories only, which hold no bytes of their own.
FcSet(fsys, key, value) ==
    LET filePath == buildFilePath(key)
        tmpPath == WritePath(filePath)
        written == FcWriteFile(fsys, tmpPath, value)
    IN  { [fs |-> fsys, stored |-> FALSE] }                     \* MkdirAll failed
        \cup { [fs |-> w.fs, stored |-> FALSE] : w \in { x \in written : ~x.ok } }
        \cup { [fs |-> IF r.ok THEN r.fs ELSE FcRemove(r.fs, tmpPath),
                stored |-> r.ok] :
                 r \in UNION { FcRename(w.fs, tmpPath, filePath) :
                                 w \in { x \in written : x.ok } } }

\* the files a process killed inside FileCache.Set may leave: none touched,
\* the temporary file with any prefix of the bytes or all of them, or the
\* rename done.  The set of [fs, stored].
FcSetCut(fsys, key, value) ==
    LET filePath == buildFilePath(key)
        tmpPath == WritePath(filePath)
    IN  { [fs |-> fsys, stored |-> FALSE] }
        \cup { [fs |-> MapPut(fsys, tmpPath, SubSeq(value, 1, n)), stored |-> FALSE] :
                 n \in 0 .. Len(value) }
        \cup { [fs |-> r.fs, stored |-> TRUE] :
                 r \in { x \in FcRename(MapPut(fsys, tmpPath, value), tmpPath, filePath) :
                           x.ok } }

\* a NewFileCache that starts from an empty directory
NewFileCacheEmptied(fsys) == EmptyMap

\* NewFileCache on a directory that exists: MkdirAll changes nothing
NewFileCacheOn(fsys) == fsys

\* FileCache.Clear: os.RemoveAll(cacheDir) then MkdirAll; a failing RemoveAll
\* may already have removed any of the files.  The set of file systems.
FcClear(fsys) ==
    { EmptyMap } \cup { [p \in S |-> fsys[p]] : S \in SUBSET (DOMAIN fsys) }

----------------------------------------------------------------------------
(* NoopCache *)

\* a Get that finds a tile
NoopGetHit(key) == [found |-> TRUE, value |-> <<1>>]

NoopGet(key) == [found |-> FALSE, value |-> NoValue]

----------------------------------------------------------------------------
(* SpecCache: the calls of the cache.Cache interface on one backend *)

CacheTypes == {"memory", "file", "disabled"}

NoHistory == [k \in CacheKeys |-> NoValue]

InitCache ==
    /\ cacheType \in CacheTypes
    /\ maxSize \in IF cacheType = "memory" THEN 0 .. MaxTiles ELSE {0}
    /\ items = EmptyMap
    /\ lruList = <<>>
    /\ fs = EmptyMap
    /\ clock = 0
    /\ lastUse = [k \in CacheKeys |-> 0]
    /\ lastSet = NoHistory
    /\ lastStored = NoHistory
    /\ cLast = [op |-> "New", key |-> NilKey, found |-> FALSE, value |-> NoValue,
               evicted |-> {}]

Returned(op, key, found, value) ==
    [op |-> op, key |-> key, found |-> found, value |-> value, evicted |-> {}]

\* the history forgets the keys the cache no longer holds
Forget(hist, held, zero) == [k \in CacheKeys |-> IF k \in held THEN hist[k] ELSE zero]

MemHas(key) ==
    /\ cacheType = "memory"
    /\ cLast' = Returned("Has", key, McHas(items, key), NoValue)
    /\ UNCHANGED <<cacheVars, clock, lastUse, lastSet, lastStored>>
    /\ UNCHANGED <<fileVars, restVars, renderVars, warmupVars>>

MemGet(key) ==
    /\ cacheType = "memory"
    /\ clock < MaxClock
    /\ LET r == McGet(items, lruList, key)
       IN  /\ items' = r.items
           /\ lruList' = r.lruList
           /\ cLast' = Returned("Get", key, r.found, r.value)
           /\ clock' = IF r.found THEN clock + 1 ELSE clock
           /\ lastUse' = IF r.found THEN [lastUse EXCEPT ![key] = clock + 1]
                                    ELSE lastUse
    /\ UNCHANGED <<cacheType, maxSize, fs, lastSet, lastStored>>
    /\ UNCHANGED <<fileVars, restVars, renderVars, warmupVars>>

MemSet(key, value) ==
    /\ cacheType = "memory"
    /\ clock < MaxClock
    /\ LET r == McSet(items, lruList, maxSize, key, value)
       IN  /\ items' = r.items
           /\ lruList' = r.lruList
           /\ cLast' = [Returned("Set", key, TRUE, value) EXCEPT
                          !.evicted = (DOMAIN items) \ (DOMAIN r.items)]
           /\ clock' = clock + 1
           /\ lastUse' = Forget([lastUse EXCEPT ![key] = clock + 1],
                                DOMAIN r.items, 0)
    /\ lastSet' = [lastSet EXCEPT ![key] = value]
    /\ lastStored' = [lastStored EXCEPT ![key] = value]
    /\ UNCHANGED <<cacheType, maxSize, fs>>
    /\ UNCHANGED <<fileVars, restVars, renderVars, warmupVars>>

MemClear ==
    /\ cacheType = "memory"
    /\ items' = McClear.items
    /\ lruList' = McClear.lruList
    /\ cLast' = Returned("Clear", NilKey, FALSE, NoValue)
    /\ lastUse' = [k \in CacheKeys |-> 0]
    /\ UNCHANGED <<cacheType, maxSize, fs, clock, lastSet, lastStored>>
    /\ UNCHANGED <<fileVars, restVars, renderVars, warmupVars>>

FileGet(key) ==
    /\ cacheType = "file"
    /\ LET r == FcGet(fs, key)
       IN  cLast' = Returned("Get", key, r.found, r.value)
    /\ UNCHANGED <<cacheVars, clock, lastUse, lastSet, lastStored>>
    /\ UNCHANGED <<fileVars, restVars, renderVars, warmupVars>>

FileSet(key, value) ==
    /\ cacheType = "file"
    /\ \E r \in FcSet(fs, key, value) :
          /\ fs' = r.fs
          /\ cLast' = Returned("Set", key, r.stored, value)
          /\ lastStored' = IF r.stored THEN [lastStored EXCEPT ![key] = value]
                                       ELSE lastStored
    /\ lastSet' = [lastSet EXCEPT ![key] = value]
    /\ UNCHANGED <<cacheType, maxSize, items, lruList, clock, lastUse>>
    /\ UNCHANGED <<fileVars, restVars, renderVars, warmupVars>>

FileClear ==
    /\ cacheType = "file"
    /\ \E f \in FcClear(fs) : fs' = f
    /\ cLast' = Returned("Clear", NilKey, FALSE, NoValue)
    /\ UNCHANGED <<cacheType, maxSize, items, lruList, clock, lastUse,
                   lastSet, lastStored>>
    /\ UNCHANGED <<fileVars, restVars, renderVars, warmupVars>>

NoopCacheGet(key) ==
    /\ cacheType = "disabled"
    /\ LET r == NoopGet(key)
       IN  cLast' = Returned("Get", key, r.found, r.value)
    /\ UNCHANGED <<cacheVars, clock, lastUse, lastSet, lastStored>>
    /\ UNCHANGED <<fileVars, restVars, renderVars, warmupVars>>

NoopCacheSet(key, value) ==
    /\ cacheType = "disabled"
    /\ cLast' = Returned("Set", key, FALSE, value)
    /\ lastSet' = [lastSet EXCEPT ![key] = value]
    /\ UNCHANGED <<cacheVars, clock, lastUse, lastStored>>
    /\ UNCHANGED <<fileVars, restVars, renderVars, warmupVars>>

NoopCacheClear ==
    /\ cacheType = "disabled"
    /\ cLast' = Returned("Clear", NilKey, FALSE, NoValue)
    /\ UNCHANGED <<cacheVars, clock, lastUse, lastSet, lastStored>>
    /\ UNCHANGED <<fileVars, restVars, renderVars, warmupVars>>

----------------------------------------------------------------------------
(* SpecFile: FileCache.Set step by step, with the process killed at any step *)

FcThreads == {"g1", "g2"}

FileIdle ==
    /\ fcMu = None
    /\ fcPc = [t \in FcThreads |-> "idle"]
    /\ fcArg = [t \in FcThreads |-> None]
    /\ fcDone = {}
    /\ fcAborted = {}
    /\ fcLast = Returned("New", NilKey, FALSE, NoValue)

\* return from Set: the deferred c.mu.Unlock()
FcReturn(t) ==
    /\ fcMu' = None
    /\ fcPc' = [fcPc EXCEPT ![t] = "idle"]
    /\ fcArg' = [fcArg EXCEPT ![t] = None]

\* c.mu.Lock()
FcSetLock(t, key, value) ==
    /\ fcPc[t] = "idle"
    /\ fcMu = None
    /\ fcMu' = t
    /\ fcPc' = [fcPc EXCEPT ![t] = "mkdir"]
    /\ fcArg' = [fcArg EXCEPT ![t] = [key |-> key, value |-> value, n |-> 0]]
    /\ UNCHANGED <<fs, fcDone, fcAborted, fcLast>>
    /\ UNCHANGED <<cacheType, maxSize, items, lruList, histVars, renderVars, warmupVars, restVars>>

\* os.MkdirAll(dir): on error Set returns
FcSetMkdir(t) ==
    /\ fcPc[t] = "mkdir"
    /\ \/ /\ fcPc' = [fcPc EXCEPT ![t] = "open"]
          /\ UNCHANGED <<fcMu, fcArg>>
       \/ FcReturn(t)
    /\ UNCHANGED <<fs, fcDone, fcAborted, fcLast>>
    /\ UNCHANGED <<cacheType, maxSize, items, lruList, histVars, renderVars, warmupVars, restVars>>

\* os.WriteFile, the open: creates or truncates the file written to
FcSetOpen(t) ==
    /\ fcPc[t] = "open"
    /\ \/ /\ fs' = MapPut(fs, WritePath(buildFilePath(fcArg[t].key)), <<>>)
          /\ fcPc' = [fcPc EXCEPT ![t] = "write"]
          /\ UNCHANGED <<fcMu, fcArg>>
       \/ /\ FcReturn(t)
          /\ UNCHANGED fs
    /\ UNCHANGED <<fcDone, fcAborted, fcLast>>
    /\ UNCHANGED <<cacheType, maxSize, items, lruList, histVars, renderVars, warmupVars, restVars>>

\* os.WriteFile, the write: one more byte reaches the file, or an error
FcSetWrite(t) ==
    /\ fcPc[t] = "write"
    /\ LET a == fcArg[t]
           path == WritePath(buildFilePath(a.key))
       IN  \/ /\ a.n < Len(a.value)
              /\ fs' = MapPut(fs, path, SubSeq(a.value, 1, a.n + 1))
              /\ fcArg' = [fcArg EXCEPT ![t].n = a.n + 1]
              /\ UNCHANGED <<fcMu, fcPc>>
           \/ /\ a.n = Len(a.value)
              /\ fcPc' = [fcPc EXCEPT ![t] = "rename"]
              /\ UNCHANGED <<fs, fcMu, fcArg>>
           \/ /\ FcReturn(t)
              /\ UNCHANGED fs
    /\ UNCHANGED <<fcDone, fcAborted, fcLast>>
    /\ UNCHANGED <<cacheType, maxSize, items, lruList, histVars, renderVars, warmupVars, restVars>>

\* os.Rename(tmpPath, filePath); on error os.Remove(tmpPath)
FcSetRename(t) ==
    /\ fcPc[t] = "rename"
    /\ LET a == fcArg[t]
           filePath == buildFilePath(a.key)
       IN  \E r \in FcRename(fs, WritePath(filePath), filePath) :
             /\ fs' = IF r.ok THEN r.fs ELSE FcRemove(r.fs, WritePath(filePath))
             /\ fcDone' = IF r.ok THEN fcDone \cup {<<a.key, a.value>>}
                                  ELSE fcDone
    /\ FcReturn(t)
    /\ UNCHANGED <<fcAborted, fcLast>>
    /\ UNCHANGED <<cacheType, maxSize, items, lruList, histVars, renderVars, warmupVars, restVars>>

\* FileCache.Get: c.mu.RLock(), os.ReadFile
FcGetFile(key) ==
    /\ fcMu = None
    /\ LET r == FcGet(fs, key)
       IN  fcLast' = Returned("Get", key, r.found, r.value)
    /\ UNCHANGED <<fs, fcMu, fcPc, fcArg, fcDone, fcAborted>>
    /\ UNCHANGED <<cacheType, maxSize, items, lruList, histVars, renderVars, warmupVars, restVars>>

\* the process is killed and started again on the same cache directory
\* (NewFileCache: MkdirAll of a directory that exists): the goroutines and
\* the lock are gone, the files stay as they are
FcKill ==
    /\ \E t \in FcThreads : fcPc[t] # "idle"
    /\ fcAborted' = fcAborted \cup { fcArg[t].key : t \in { u \in FcThreads : fcPc[u] # "idle" } }
    /\ fcMu' = None
    /\ fcPc' = [t \in FcThreads |-> "idle"]
    /\ fcArg' = [t \in FcThreads |-> None]
    /\ fcLast' = Returned("New", NilKey, FALSE, NoValue)
    /\ UNCHANGED <<fs, fcDone>>
    /\ UNCHANGED <<cacheType, maxSize, items, lruList, histVars, renderVars, warmupVars, restVars>>

\* FileCache.Clear under the write lock
FcClearFile ==
    /\ fcMu = None
    /\ \E f \in FcClear(fs) : fs' = f
    /\ UNCHANGED <<fcMu, fcPc, fcArg, fcDone, fcAborted, fcLast>>
    /\ UNCHANGED <<cacheType, maxSize, items, lruList, histVars, renderVars, warmupVars, restVars>>

----------------------------------------------------------------------------
(* Scanner: the catalog *)

ImageInfo(id, file, w, h) ==
    [ID |-> id, CurrentFilename |-> file, Width |-> w, Height |-> h]

\* a 600 x 300 image (maxZoom 2) and a 100 x 100 one (maxZoom 0)
Catalog == << ImageInfo("a", "a.tif", 600, 300), ImageInfo("b", "b.png", 100, 100) >>

\* a nil *ImageInfo
NilImage == ImageInfo("", "", 0, 0)

\* a lookup that falls back on the first image of the catalog
GetImageByIDOrFirst(imgs, id) ==
    LET hits == { i \in 1 .. Len(imgs) : imgs[i].ID = id }
    IN  IF hits # {} THEN imgs[CHOOSE i \in hits : \A j \in hits : i <= j]
        ELSE IF Len(imgs) > 0 THEN imgs[1] ELSE NilImage

\* Scanner.GetImageByID: the first image with that ID, nil when absent
GetImageByID(imgs, id) ==
    LET hits == { i \in 1 .. Len(imgs) : imgs[i].ID = id }
    IN  IF hits = {} THEN NilImage
        ELSE imgs[CHOOSE i \in hits : \A j \in hits : i <= j]

\* Scanner.GetImagePathByID: "" when absent
GetImagePathByID(imgs, id) ==
    LET imageInfo == GetImageByID(imgs, id)
    IN  IF imageInfo = NilImage THEN "" ELSE "/data/" \o imageInfo.CurrentFilename

----------------------------------------------------------------------------
(* Renderer *)

TileSize == 256

RECURSIVE Pow2(_)
Pow2(n) == IF n <= 0 THEN 1 ELSE 2 * Pow2(n - 1)

Max(a, b) == IF a >= b THEN a ELSE b
Min(a, b) == IF a <= b THEN a ELSE b

\* ceil(log2(n / d)) for n > d > 0, by doubling
RECURSIVE CeilLog2(_, _)
CeilLog2(n, d) == IF d >= n THEN 0 ELSE 1 + CeilLog2(n, 2 * d)

\* floor(log2(n / d)) for n >= d > 0
RECURSIVE FloorLog2(_, _)
FloorLog2(n, d) == IF 2 * d > n THEN 0 ELSE 1 + FloorLog2(n, 2 * d)

\* a CalculateMaxZoom that rounds the logarithm down
CalculateMaxZoomFloor(width, height) ==
    IF Max(width, height) <= TileSize THEN 0
    ELSE FloorLog2(Max(width, height), TileSize)

\* Renderer.CalculateMaxZoom: ceil(log2(max(width, height) / 256)), 0 if negative
CalculateMaxZoom(width, height) == CeilLog2(Max(width, height), TileSize)

\* pixelsPerTile := tileSize * 2^(maxZoom - z), computed for z <= maxZoom
PixelsPerTile(maxZoom, z) == TileSize * Pow2(maxZoom - z)

\* the zoom test of RenderTile
ZoomRejected(z, maxZoom) == z > maxZoom

\* startX, startY, endX, endY, width, height of RenderTile
TileBounds(info, maxZoom, z, x, y) ==
    LET ppt == PixelsPerTile(maxZoom, z)
        startX == x * ppt
        startY == y * ppt
        endX == Min(startX + ppt, info.Width)
        endY == Min(startY + ppt, info.Height)
    IN  [startX |-> startX, startY |-> startY, endX |-> endX, endY |-> endY,
         width |-> endX - startX, height |-> endY - startY]

\* the bounds test of RenderTile
BoundsRejected(b) == b.width <= 0 \/ b.height <= 0

\* Renderer.generateETag: the first 16 hex digits of the SHA-256 of keyStr,
\* kept here as keyStr itself
generateETag(key) ==
    key.ImageID \o "_" \o ToString(key.TileSize) \o "_" \o ToString(key.MaxZoom)
      \o "/" \o ToString(key.Z) \o "/" \o ToString(key.X) \o "/" \o ToString(key.Y)
      \o "." \o key.Format

\* Renderer.loadImage: the loaders by file extension
LoadableExt(path) ==
    \E e \in {".tif", ".tiff", ".jpg", ".jpeg", ".png", ".webp"} :
       /\ Len(path) >= Len(e)
       /\ SubSeq(path, Len(path) - Len(e) + 1, Len(path)) = e

\* vips ExtractArea: the area must lie inside the image
ExtractAreaOK(info, b) ==
    /\ b.startX >= 0 /\ b.startY >= 0 /\ b.width > 0 /\ b.height > 0
    /\ b.startX + b.width <= info.Width
    /\ b.startY + b.height <= info.Height

\* a scale of pixelsPerTile / tileSize
ResizeScaleUp(ppt) == [num |-> ppt, den |-> TileSize]

\* resizeScale := tileSize / pixelsPerTile, as the fraction num / den
ResizeScale(ppt) == [num |-> TileSize, den |-> ppt]

\* vips Resize by resizeScale: a dimension d becomes round(d * resizeScale),
\* at least 1
Resized(d, ppt) ==
    LET s == ResizeScale(ppt)
    IN  Max(1, (2 * d * s.num + s.den) \div (2 * s.den))

\* a padding test that pads only tiles short in both dimensions
NeedsPadBoth(w, h) == w < 256 /\ h < 256

\* the padding test of RenderTile
NeedsPad(w, h) == w < 256 \/ h < 256

\* what the codec or the file system may refuse during one render
Faults == {"none", "open", "extract", "resize", "pad", "encode"}

\* the encodings JpegsaveBuffer may produce for the same pixels
Encodings == {"e1", "e2"}

Failed(err, steps) ==
    [err |-> err, data |-> NoValue, etag |-> "", size |-> 0, hit |-> FALSE,
     steps |-> steps]

\* the locals of a goroutine that is not in RenderTile
NoCall ==
    [id |-> "", z |-> 0, x |-> 0, y |-> 0, info |-> NilImage, maxZoom |-> 0,
     key |-> NilKey]

\* a nil *TileResult
NoResult == Failed("", <<>>)

\* a result tagged by its bytes
TileResultTaggedByData(data, key, hit, steps) ==
    [err |-> None, data |-> data, etag |-> data[2], size |-> Len(data),
     hit |-> hit, steps |-> steps]

\* the TileResult of a cache hit or of a completed render
TileResult(data, key, hit, steps) ==
    [err |-> None, data |-> data, etag |-> generateETag(key), size |-> Len(data),
     hit |-> hit, steps |-> steps]

\* image.Embed(0, 0, 256, 256) of a w x h image when pad, else the image as
\* it is: the size of the result and where the w x h content lies in it
Embed(w, h, pad) ==
    IF pad THEN [outW |-> 256, outH |-> 256, left |-> 0, top |-> 0]
           ELSE [outW |-> w, outH |-> h, left |-> 0, top |-> 0]

\* the bytes of a tile: what was cut, how it came out and the codec that
\* wrote it (JpegsaveBuffer), then the encoding
TileBytes(id, b, w, h, pad, enc) ==
    << [ImageID |-> id, startX |-> b.startX, startY |-> b.startY,
        width |-> b.width, height |-> b.height, w |-> w, h |-> h, padded |-> pad,
        out |-> Embed(w, h, pad), codec |-> "jpeg"],
       enc >>

\* RenderTile from the cache miss to the encoded tile: [err, data, steps]
Pipeline(imgs, c, fault, enc) ==
    LET imagePath == GetImagePathByID(imgs, c.id)
        b == TileBounds(c.info, c.maxZoom, c.z, c.x, c.y)
        ppt == PixelsPerTile(c.maxZoom, c.z)
        w == Resized(b.width, ppt)
        h == Resized(b.height, ppt)
        pad == NeedsPad(w, h)
    IN  IF imagePath = ""
        THEN Failed("image path not found", <<>>)
        ELSE IF ~LoadableExt(imagePath) \/ fault = "open"
        THEN Failed("failed to open image", <<"open">>)
        ELSE IF ZoomRejected(c.z, c.maxZoom)
        THEN Failed("zoom level exceeds max zoom", <<"open">>)
        ELSE IF BoundsRejected(b)
        THEN Failed("invalid tile bounds", <<"open">>)
        ELSE IF ~ExtractAreaOK(c.info, b) \/ fault = "extract"
        THEN Failed("failed to extract area", <<"open", "extract">>)
        ELSE IF fault = "resize"
        THEN Failed("failed to resize", <<"open", "extract", "resize">>)
        ELSE IF pad /\ fault = "pad"
        THEN Failed("failed to pad", <<"open", "extract", "resize", "pad">>)
        ELSE IF fault = "encode"
        THEN Failed("failed to export",
                    <<"open", "extract", "resize">>
                      \o (IF pad THEN <<"pad">> ELSE <<>>) \o <<"encode">>)
        ELSE TileResult(TileBytes(c.id, b, w, h, pad, enc), c.key, FALSE,
                        <<"open", "extract", "resize">>
                          \o (IF pad THEN <<"pad">> ELSE <<>>) \o <<"encode">>)

\* a lookup that never finds
TileCacheMiss(key) ==
    [found |-> FALSE, value |-> NoValue, items |-> items, lruList |-> lruList,
     fs |-> fs]

\* what GetImageMeta returns for imageID: the error, or the map's width,
\* height, tileSize, maxZoom and format
Meta(id, err, info, maxZoom, format) ==
    [id |-> id, err |-> err, width |-> info.Width, height |-> info.Height,
     tileSize |-> IF err = None THEN TileSize ELSE 0, maxZoom |-> maxZoom,
     format |-> format]

\* no GetImageMeta call yet
NoMeta == Meta("", "", NilImage, 0, "")

\* Renderer.GetImageMeta
GetImageMeta(imgs, id) ==
    LET imageInfo == GetImageByID(imgs, id)
    IN  IF imageInfo = NilImage
        THEN Meta(id, "image not found", NilImage, 0, "")
        ELSE Meta(id, None, imageInfo,
                  CalculateMaxZoom(imageInfo.Width, imageInfo.Height), "jpeg")

\* r.tileCache.Get(cacheKey) on the backend in use:
\* [found, value, items, lruList, fs]
TileCacheGet(key) ==
    CASE cacheType = "memory" ->
           LET r == McGet(items, lruList, key)
           IN  [found |-> r.found, value |-> r.value, items |-> r.items,
                lruList |-> r.lruList, fs |-> fs]
      [] cacheType = "file" ->
           LET r == FcGet(fs, key)
           IN  [found |-> r.found, value |-> r.value, items |-> items,
                lruList |-> lruList, fs |-> fs]
      [] OTHER ->
           LET r == NoopGet(key)
           IN  [found |-> r.found, value |-> r.value, items |-> items,
                lruList |-> lruList, fs |-> fs]

\* a cache write that keeps the head of the bytes only
TileCacheSetTorn(key, value) ==
    CASE cacheType = "memory" ->
           LET r == McSet(items, lruList, maxSize, key, <<value[1]>>)
           IN  { [items |-> r.items, lruList |-> r.lruList, fs |-> fs] }
      [] cacheType = "file" ->
           { [items |-> items, lruList |-> lruList, fs |-> r.fs] :
               r \in FcSet(fs, key, <<value[1]>>) }
      [] OTHER ->
           { [items |-> items, lruList |-> lruList, fs |-> fs] }

\* r.tileCache.Set(cacheKey, tileData) on the backend in use:
\* the set of [items, lruList, fs]
TileCacheSet(key, value) ==
    CASE cacheType = "memory" ->
           LET r == McSet(items, lruList, maxSize, key, value)
           IN  { [items |-> r.items, lruList |-> r.lruList, fs |-> fs] }
      [] cacheType = "file" ->
           { [items |-> items, lruList |-> lruList, fs |-> r.fs] :
               r \in FcSet(fs, key, value) }
      [] OTHER ->
           { [items |-> items, lruList |-> lruList, fs |-> fs] }

\* a RenderTile that hands the cache whatever the pipeline returned
StoredAlways(out, key) == TileCacheSet(key, out.data)

\* what RenderTile stores once the pipeline has returned out
StoredAfter(out, key) ==
    IF out.err = None
    THEN TileCacheSet(key, out.data)
    ELSE { [items |-> items, lruList |-> lruList, fs |-> fs] }

\* RenderTile up to and including the cache lookup
RenderTileBegin(g, req) ==
    /\ rtPc[g] = "idle"
    /\ LET imageInfo == GetImageByID(images, req.id)
       IN  IF imageInfo = NilImage
           THEN /\ rtPc' = [rtPc EXCEPT ![g] = "ret"]
                /\ rtCall' = [rtCall EXCEPT ![g] = [id |-> req.id, z |-> req.z,
                                 x |-> req.x, y |-> req.y, info |-> NilImage,
                                 maxZoom |-> 0, key |-> NilKey]]
                /\ rtResult' = [rtResult EXCEPT ![g] = Failed("image not found", <<>>)]
                /\ UNCHANGED <<items, lruList, fs>>
           ELSE LET maxZoom == CalculateMaxZoom(imageInfo.Width, imageInfo.Height)
                    cacheKey == TileKey(req.id, TileSize, maxZoom, req.z, req.x,
                                        req.y, "jpeg")
                    got == TileCacheGet(cacheKey)
                IN  /\ rtCall' = [rtCall EXCEPT ![g] = [id |-> req.id, z |-> req.z,
                                     x |-> req.x, y |-> req.y, info |-> imageInfo,
                                     maxZoom |-> maxZoom, key |-> cacheKey]]
                    /\ items' = got.items
                    /\ lruList' = got.lruList
                    /\ fs' = got.fs
                    /\ IF got.found
                       THEN /\ rtPc' = [rtPc EXCEPT ![g] = "ret"]
                            /\ rtResult' = [rtResult EXCEPT ![g] =
                                   TileResult(got.value, cacheKey, TRUE, <<>>)]
                       ELSE /\ rtPc' = [rtPc EXCEPT ![g] = "render"]
                            /\ UNCHANGED rtResult
    /\ UNCHANGED <<cacheType, maxSize, images, rtMeta>>

\* RenderTile from the cache miss on: the pipeline, then the cache write
RenderTileFinish(g) ==
    /\ rtPc[g] = "render"
    /\ \E fault \in Faults, enc \in Encodings :
          LET out == Pipeline(images, rtCall[g], fault, enc)
          IN  /\ \E c \in StoredAfter(out, rtCall[g].key) :
                    /\ items' = c.items
                    /\ lruList' = c.lruList
                    /\ fs' = c.fs
              /\ rtResult' = [rtResult EXCEPT ![g] = out]
    /\ rtPc' = [rtPc EXCEPT ![g] = "ret"]
    /\ UNCHANGED <<cacheType, maxSize, images, rtCall, rtMeta>>

\* the caller takes the result
RenderTileReturn(g) ==
    /\ rtPc[g] = "ret"
    /\ rtPc' = [rtPc EXCEPT ![g] = "idle"]
    /\ rtCall' = [rtCall EXCEPT ![g] = NoCall]
    /\ rtResult' = [rtResult EXCEPT ![g] = NoResult]
    /\ UNCHANGED <<cacheVars, images, rtMeta>>

----------------------------------------------------------------------------
(* main and warmupTiles *)

\* the number of whole tiles only
TilesAcrossFloor(dim, maxZoom, z) == dim \div PixelsPerTile(maxZoom, z)

\* int(math.Ceil(float64(dim) / (256 * math.Pow(2, float64(maxZoom-z)))))
TilesAcross(dim, maxZoom, z) ==
    LET ppt == PixelsPerTile(maxZoom, z)
    IN  (dim + ppt - 1) \div ppt

\* warmupZoom: levels clamped to maxZoom
WarmupZoom(levels, maxZoom) == IF levels > maxZoom THEN maxZoom ELSE levels

WarmupTile(id, z, x, y) == [id |-> id, z |-> z, x |-> x, y |-> y]

\* for y := 0; y < tilesY; y++
ColumnTiles(id, z, x, tilesY) == [i \in 1 .. tilesY |-> WarmupTile(id, z, x, i - 1)]

\* for x := 0; x < tilesX; x++
RECURSIVE LevelTiles(_, _, _, _, _)
LevelTiles(id, z, x, tilesX, tilesY) ==
    IF x >= tilesX THEN <<>>
    ELSE ColumnTiles(id, z, x, tilesY) \o LevelTiles(id, z, x + 1, tilesX, tilesY)

\* for z := 0; z <= warmupZoom; z++
RECURSIVE ImageTiles(_, _, _, _)
ImageTiles(img, maxZoom, z, warmupZoom) ==
    IF z > warmupZoom THEN <<>>
    ELSE LevelTiles(img.ID, z, 0, TilesAcross(img.Width, maxZoom, z),
                    TilesAcross(img.Height, maxZoom, z))
           \o ImageTiles(img, maxZoom, z + 1, warmupZoom)

\* for _, img := range images: the tiles in the order they are submitted
RECURSIVE WarmupPlan(_, _, _)
WarmupPlan(imgs, i, levels) ==
    IF i > Len(imgs) THEN <<>>
    ELSE LET maxZoom == CalculateMaxZoom(imgs[i].Width, imgs[i].Height)
         IN  ImageTiles(imgs[i], maxZoom, 0, WarmupZoom(levels, maxZoom))
               \o WarmupPlan(imgs, i + 1, levels)

\* if workerLimit <= 0 { workerLimit = 1 }: the capacity of workerChan
WorkerLimit(workerLimit) == IF workerLimit <= 0 THEN 1 ELSE workerLimit

\* a send on workerChan that never blocks
SlotAlwaysFree == workerChan >= 0

\* whether the send on workerChan can proceed
SlotFree == workerChan < WorkerLimit(wuWorkers)

\* main: if cfg.WarmupLevels > 0 { go warmupTiles(...) }
WarmupEnabled(levels) == levels > 0

\* warmupTiles up to the loop: returns at once on an empty catalog
WarmupStart ==
    /\ wuPc = "start"
    /\ wuPc' = IF Len(images) = 0 THEN "done" ELSE "loop"
    /\ UNCHANGED <<wuLevels, wuWorkers, wuPlan, wuNext, workerChan, wg, wuTask, wuFailed>>
    /\ UNCHANGED <<cacheVars, histVars, fileVars, restVars, renderVars>>

\* wg.Add(1)
WarmupAdd ==
    /\ wuPc = "loop"
    /\ wuNext <= Len(wuPlan)
    /\ wg' = wg + 1
    /\ wuPc' = "acquire"
    /\ UNCHANGED <<wuLevels, wuWorkers, wuPlan, wuNext, workerChan, wuTask, wuFailed>>
    /\ UNCHANGED <<cacheVars, histVars, fileVars, restVars, renderVars>>

\* workerChan <- struct{}{} ; go func(...)
WarmupSubmit ==
    /\ wuPc = "acquire"
    /\ SlotFree
    /\ workerChan' = workerChan + 1
    /\ wuTask' = [wuTask EXCEPT ![wuNext] = "spawned"]
    /\ wuNext' = wuNext + 1
    /\ wuPc' = "loop"
    /\ UNCHANGED <<wuLevels, wuWorkers, wuPlan, wg, wuFailed>>
    /\ UNCHANGED <<cacheVars, histVars, fileVars, restVars, renderVars>>

\* the task calls renderer.RenderTile
TaskRender(t) ==
    /\ wuTask[t] = "spawned"
    /\ RenderTileBegin(t, wuPlan[t])
    /\ wuTask' = [wuTask EXCEPT ![t] = "running"]
    /\ UNCHANGED <<wuLevels, wuWorkers, wuPlan, wuPc, wuNext, workerChan, wg, wuFailed>>
    /\ UNCHANGED <<histVars, fileVars, restVars>>

\* RenderTile has returned; the error, if any, is logged;
\* deferred: <-workerChan
TaskRelease(t) ==
    /\ wuTask[t] = "running"
    /\ rtPc[t] = "ret"
    /\ wuFailed' = IF rtResult[t].err # None THEN wuFailed \cup {t} ELSE wuFailed
    /\ workerChan' = workerChan - 1
    /\ wuTask' = [wuTask EXCEPT ![t] = "released"]
    /\ RenderTileReturn(t)
    /\ UNCHANGED <<wuLevels, wuWorkers, wuPlan, wuPc, wuNext, wg>>
    /\ UNCHANGED <<histVars, fileVars, restVars>>

\* deferred: wg.Done()
TaskDone(t) ==
    /\ wuTask[t] = "released"
    /\ wg' = wg - 1
    /\ wuTask' = [wuTask EXCEPT ![t] = "finished"]
    /\ UNCHANGED <<wuLevels, wuWorkers, wuPlan, wuPc, wuNext, workerChan, wuFailed>>
    /\ UNCHANGED <<cacheVars, histVars, fileVars, restVars, renderVars>>

\* RenderTile of task t renders and stores
TaskRenderFinish(t) ==
    /\ wuTask[t] = "running"
    /\ RenderTileFinish(t)
    /\ UNCHANGED <<warmupVars, histVars, fileVars, restVars>>

\* a warmupTiles that returns when its loops are over
WarmupNoWait ==
    /\ wuPc = "loop"
    /\ wuNext > Len(wuPlan)
    /\ wuPc' = "done"
    /\ UNCHANGED <<wuLevels, wuWorkers, wuPlan, wuNext, workerChan, wg, wuTask, wuFailed>>
    /\ UNCHANGED <<cacheVars, histVars, fileVars, restVars, renderVars>>

\* the loops are over; wg.Wait() returns when the counter is zero
WarmupWait ==
    /\ wuPc = "loop"
    /\ wuNext > Len(wuPlan)
    /\ wg = 0
    /\ wuPc' = "done"
    /\ UNCHANGED <<wuLevels, wuWorkers, wuPlan, wuNext, workerChan, wg, wuTask, wuFailed>>
    /\ UNCHANGED <<cacheVars, histVars, fileVars, restVars, renderVars>>

----------------------------------------------------------------------------
(* MemoryCache method by method: sync.RWMutex and container/list *)

McThreads == {"m1", "m2"}

\* the root element of a list, and a nil *Element
Root == NilKey
NilElem == TileKey("nil", 0, 0, 0, 0, 0, "")

Nodes == CacheKeys \cup {Root}

\* list.New(): the root points at itself, no element is linked
NewList ==
    [next |-> [n \in Nodes |-> IF n = Root THEN Root ELSE NilElem],
     prev |-> [n \in Nodes |-> IF n = Root THEN Root ELSE NilElem],
     value |-> [n \in Nodes |-> NoValue],
     len |-> 0]

\* the keys met from the front of the list following next, n at most
RECURSIVE Walk(_, _, _)
Walk(L, node, n) ==
    IF node = Root \/ node = NilElem \/ n = 0
    THEN <<>>
    ELSE <<node>> \o Walk(L, L.next[node], n - 1)

\* Front() ... Next(): the keys of the list, front first
Chain(L) == Walk(L, L.next[Root], Cardinality(CacheKeys) + 1)

\* the entries of the list, front first
ChainEntries(L) ==
    LET c == Chain(L)
    IN  [i \in 1 .. Len(c) |-> NewEntry(c[i], L.value[c[i]])]

\* the six assignments of list.move(e, &l.root), the n-th of them
ListMoveStep(L, e, n) ==
    CASE n = 1 -> [L EXCEPT !.next[L.prev[e]] = L.next[e]]
      [] n = 2 -> [L EXCEPT !.prev[L.next[e]] = L.prev[e]]
      [] n = 3 -> [L EXCEPT !.prev[e] = Root]
      [] n = 4 -> [L EXCEPT !.next[e] = L.next[Root]]
      [] n = 5 -> [L EXCEPT !.next[L.prev[e]] = e]
      [] OTHER -> [L EXCEPT !.prev[L.next[e]] = e]

\* the element the n-th assignment of list.move dereferences
ListMoveTarget(L, e, n) ==
    CASE n \in {1, 5} -> L.prev[e]
      [] n \in {2, 6} -> L.next[e]
      [] OTHER -> e

RECURSIVE ListMoveFrom(_, _, _)
ListMoveFrom(L, e, n) ==
    IF n > 6 THEN L ELSE ListMoveFrom(ListMoveStep(L, e, n), e, n + 1)

\* list.MoveToFront(e) in one piece
ListMoveToFront(L, e) ==
    IF L.next[Root] = e THEN L ELSE ListMoveFrom(L, e, 1)

\* list.PushFront(v): insert(e, &l.root)
ListPushFront(L, e, value) ==
    LET L1 == [L EXCEPT !.prev[e] = Root, !.next[e] = L.next[Root],
                        !.value[e] = value]
        L2 == [L1 EXCEPT !.next[L1.prev[e]] = e]
        L3 == [L2 EXCEPT !.prev[L2.next[e]] = e]
    IN  [L3 EXCEPT !.len = L.len + 1]

\* list.Back(): nil on an empty list, else root.prev
ListBack(L) == IF L.len = 0 THEN NilElem ELSE L.prev[Root]

\* list.Remove(e)
ListRemove(L, e) ==
    LET L1 == [L EXCEPT !.next[L.prev[e]] = L.next[e]]
        L2 == [L1 EXCEPT !.prev[L1.next[e]] = L1.prev[e]]
    IN  [L2 EXCEPT !.next[e] = NilElem, !.prev[e] = NilElem, !.len = L.len - 1]

\* the body of MemoryCache.Set on the index and the linked list: [items, list]
McSetBody(its, L, max, key, value) ==
    IF key \in DOMAIN its
    THEN [items |-> MapPut(its, key, NewEntry(key, value)),
          list |-> ListMoveToFront([L EXCEPT !.value[key] = value], key)]
    ELSE LET oldest == ListBack(L)
             evict == L.len >= max /\ oldest # NilElem
             its1 == IF evict THEN MapDelete(its, oldest) ELSE its
             L1 == IF evict THEN ListRemove(L, oldest) ELSE L
         IN  [items |-> MapPut(its1, key, NewEntry(key, value)),
              list |-> ListPushFront(L1, key, value)]

\* RLock is granted while no goroutine holds Lock
CanRLock == mcMu.writer = None

\* Lock is granted while no goroutine holds Lock or RLock
CanLock == mcMu.writer = None /\ mcMu.readers = {}

McCall(op, key, value) == [op |-> op, key |-> key, value |-> value]

McIdleCall == McCall("", NilKey, NoValue)

\* the goroutine is through with its method and has unlocked
McReturn(t) ==
    /\ mcMu' = [writer |-> IF mcMu.writer = t THEN None ELSE mcMu.writer,
                readers |-> mcMu.readers \ {t}]
    /\ mcPc' = [mcPc EXCEPT ![t] = "idle"]
    /\ mcArg' = [mcArg EXCEPT ![t] = McIdleCall]

\* Has and Get: c.mu.RLock()
McRLock(t, op, key) ==
    /\ mcPc[t] = "idle"
    /\ clock < MaxClock
    /\ clock' = clock + 1
    /\ CanRLock
    /\ mcMu' = [mcMu EXCEPT !.readers = @ \cup {t}]
    /\ mcPc' = [mcPc EXCEPT ![t] = op]
    /\ mcArg' = [mcArg EXCEPT ![t] = McCall(op, key, NoValue)]
    /\ UNCHANGED <<mcList, cacheVars, lastUse, lastSet, lastStored, cLast>>
    /\ UNCHANGED <<fileVars, renderVars, warmupVars, shareVars, serverVars>>

\* Set and Clear: c.mu.Lock()
McLock(t, op, key, value) ==
    /\ mcPc[t] = "idle"
    /\ clock < MaxClock
    /\ clock' = clock + 1
    /\ CanLock
    /\ mcMu' = [mcMu EXCEPT !.writer = t]
    /\ mcPc' = [mcPc EXCEPT ![t] = op]
    /\ mcArg' = [mcArg EXCEPT ![t] = McCall(op, key, value)]
    /\ UNCHANGED <<mcList, cacheVars, lastUse, lastSet, lastStored, cLast>>
    /\ UNCHANGED <<fileVars, renderVars, warmupVars, shareVars, serverVars>>

\* Has: the lookup and the return
McHasBody(t) ==
    /\ mcPc[t] = "Has"
    /\ McReturn(t)
    /\ cLast' = Returned("Has", mcArg[t].key, McHas(items, mcArg[t].key), NoValue)
    /\ UNCHANGED <<mcList, cacheVars, clock, lastUse, lastSet, lastStored>>
    /\ UNCHANGED <<fileVars, renderVars, warmupVars, shareVars, serverVars>>

\* Get: the lookup; on a miss the return, on a hit the test that opens
\* MoveToFront
McGetLookup(t) ==
    /\ mcPc[t] = "Get"
    /\ IF mcArg[t].key \notin DOMAIN items
       THEN /\ McReturn(t)
            /\ cLast' = Returned("Get", mcArg[t].key, FALSE, NoValue)
       ELSE /\ mcPc' = [mcPc EXCEPT ![t] =
                          IF mcList.next[Root] = mcArg[t].key THEN "ret" ELSE "move1"]
            /\ UNCHANGED <<mcMu, mcArg, cLast>>
    /\ UNCHANGED <<mcList, cacheVars, clock, lastUse, lastSet, lastStored>>
    /\ UNCHANGED <<fileVars, renderVars, warmupVars, shareVars, serverVars>>

MovePcs == <<"move1", "move2", "move3", "move4", "move5", "move6", "ret">>

\* Get: one assignment of list.move; a nil element dereferenced panics
McGetMove(t, n) ==
    /\ mcPc[t] = MovePcs[n]
    /\ IF ListMoveTarget(mcList, mcArg[t].key, n) = NilElem
       THEN /\ mcPc' = [mcPc EXCEPT ![t] = "panic"]
            /\ UNCHANGED <<mcList, lruList>>
       ELSE /\ mcList' = ListMoveStep(mcList, mcArg[t].key, n)
            /\ lruList' = ChainEntries(mcList')
            /\ mcPc' = [mcPc EXCEPT ![t] = MovePcs[n + 1]]
    /\ UNCHANGED <<mcMu, mcArg, cacheType, maxSize, items, fs, histVars>>
    /\ UNCHANGED <<fileVars, renderVars, warmupVars, shareVars, serverVars>>

\* Get: return elem.Value.(*entry).value, true
McGetReturn(t) ==
    /\ mcPc[t] = "ret"
    /\ McReturn(t)
    /\ cLast' = Returned("Get", mcArg[t].key, TRUE, mcList.value[mcArg[t].key])
    /\ UNCHANGED <<mcList, cacheVars, clock, lastUse, lastSet, lastStored>>
    /\ UNCHANGED <<fileVars, renderVars, warmupVars, shareVars, serverVars>>

\* Set: the body and the return
McSetRun(t) ==
    /\ mcPc[t] = "Set"
    /\ LET r == McSetBody(items, mcList, maxSize, mcArg[t].key, mcArg[t].value)
       IN  /\ items' = r.items
           /\ mcList' = r.list
           /\ lruList' = ChainEntries(r.list)
    /\ McReturn(t)
    /\ cLast' = Returned("Set", mcArg[t].key, TRUE, mcArg[t].value)
    /\ UNCHANGED <<cacheType, maxSize, fs, clock, lastUse, lastSet, lastStored>>
    /\ UNCHANGED <<fileVars, renderVars, warmupVars, shareVars, serverVars>>

\* Clear: the body and the return
McClearRun(t) ==
    /\ mcPc[t] = "Clear"
    /\ items' = EmptyMap
    /\ mcList' = NewList
    /\ lruList' = <<>>
    /\ McReturn(t)
    /\ cLast' = Returned("Clear", NilKey, FALSE, NoValue)
    /\ UNCHANGED <<cacheType, maxSize, fs, clock, lastUse, lastSet, lastStored>>
    /\ UNCHANGED <<fileVars, renderVars, warmupVars, shareVars, serverVars>>

\* no goroutine is in a MemoryCache method
MemIdle ==
    /\ mcMu = [writer |-> None, readers |-> {}]
    /\ mcPc = [t \in {} |-> "idle"]
    /\ mcArg = [t \in {} |-> McIdleCall]
    /\ mcList = NewList

----------------------------------------------------------------------------
(* FileCache.Set by goroutines of processes sharing the cache directory *)

\* the goroutines, two of process p1 and one of process p2
ShWriters == {"p1g1", "p1g2", "p2g1"}
ShProcs == {"p1", "p2"}
ProcOf(w) == IF w = "p2g1" THEN "p2" ELSE "p1"

\* the tile all of them write
ShKey == TileKey("a", 256, 1, 1, 0, 0, "jpeg")

\* an open file whose directory entry is gone
Unlinked == ""

ShIdleArg == [value |-> NoValue, n |-> 0, at |-> Unlinked]

\* write(2) of byte b at offset n of a file holding bytes c
WriteAt(c, n, b) ==
    [i \in 1 .. (IF Len(c) > n THEN Len(c) ELSE n + 1) |->
        IF i = n + 1 THEN b ELSE IF i <= Len(c) THEN c[i] ELSE 0]

\* where the open files are after the entry from was renamed to the entry to
AfterRename(args, from, to) ==
    [w \in DOMAIN args |->
        IF args[w].at = from THEN [args[w] EXCEPT !.at = to]
        ELSE IF args[w].at = to THEN [args[w] EXCEPT !.at = Unlinked]
        ELSE args[w]]

\* where the open files are after the entry path was removed
AfterRemove(args, path) ==
    [w \in DOMAIN args |->
        IF args[w].at = path THEN [args[w] EXCEPT !.at = Unlinked] ELSE args[w]]

\* return from Set: the deferred c.mu.Unlock(); the file is closed
ShReturn(w, args) ==
    /\ shMu' = [shMu EXCEPT ![ProcOf(w)] = None]
    /\ shPc' = [shPc EXCEPT ![w] = "idle"]
    /\ shArg' = [args EXCEPT ![w] = ShIdleArg]

\* c.mu.Lock() of the goroutine's own process
ShSetLock(w, value) ==
    /\ shPc[w] = "idle"
    /\ shMu[ProcOf(w)] = None
    /\ shMu' = [shMu EXCEPT ![ProcOf(w)] = w]
    /\ shPc' = [shPc EXCEPT ![w] = "mkdir"]
    /\ shArg' = [shArg EXCEPT ![w] = [value |-> value, n |-> 0, at |-> Unlinked]]
    /\ UNCHANGED <<cacheVars, histVars, fileVars, renderVars, warmupVars, memVars, serverVars>>

\* os.MkdirAll(dir): on error Set returns
ShSetMkdir(w) ==
    /\ shPc[w] = "mkdir"
    /\ \/ /\ shPc' = [shPc EXCEPT ![w] = "open"]
          /\ UNCHANGED <<shMu, shArg>>
       \/ ShReturn(w, shArg)
    /\ UNCHANGED <<cacheVars, histVars, fileVars, renderVars, warmupVars, memVars, serverVars>>

\* os.WriteFile, the open with O_CREATE|O_TRUNC of tmpPath
ShSetOpen(w) ==
    /\ shPc[w] = "open"
    /\ LET tmpPath == WritePath(buildFilePath(ShKey))
       IN  \/ /\ fs' = MapPut(fs, tmpPath, <<>>)
              /\ shPc' = [shPc EXCEPT ![w] = "write"]
              /\ shArg' = [shArg EXCEPT ![w].at = tmpPath]
              /\ UNCHANGED shMu
           \/ /\ ShReturn(w, shArg)
              /\ UNCHANGED fs
    /\ UNCHANGED <<cacheType, maxSize, items, lruList>>
    /\ UNCHANGED <<histVars, fileVars, renderVars, warmupVars, memVars, serverVars>>

\* os.WriteFile, the write: one more byte reaches the open file wherever
\* its entry now is, or an error
ShSetWrite(w) ==
    /\ shPc[w] = "write"
    /\ LET a == shArg[w]
       IN  \/ /\ a.n < Len(a.value)
              /\ fs' = IF a.at \in DOMAIN fs
                       THEN MapPut(fs, a.at, WriteAt(fs[a.at], a.n, a.value[a.n + 1]))
                       ELSE fs
              /\ shArg' = [shArg EXCEPT ![w].n = a.n + 1]
              /\ UNCHANGED <<shMu, shPc>>
           \/ /\ a.n = Len(a.value)
              /\ shPc' = [shPc EXCEPT ![w] = "rename"]
              /\ shArg' = [shArg EXCEPT ![w].at = Unlinked]
              /\ UNCHANGED <<fs, shMu>>
           \/ /\ ShReturn(w, shArg)
              /\ UNCHANGED fs
    /\ UNCHANGED <<cacheType, maxSize, items, lruList>>
    /\ UNCHANGED <<histVars, fileVars, renderVars, warmupVars, memVars, serverVars>>

\* os.Rename(tmpPath, filePath), which fails when tmpPath is gone; on error
\* os.Remove(tmpPath)
ShSetRename(w) ==
    /\ shPc[w] = "rename"
    /\ LET filePath == buildFilePath(ShKey)
           tmpPath == WritePath(filePath)
       IN  IF tmpPath \in DOMAIN fs
           THEN \E r \in FcRename(fs, tmpPath, filePath) :
                  IF r.ok
                  THEN /\ fs' = r.fs
                       /\ ShReturn(w, AfterRename(shArg, tmpPath, filePath))
                  ELSE /\ fs' = FcRemove(r.fs, tmpPath)
                       /\ ShReturn(w, AfterRemove(shArg, tmpPath))
           ELSE /\ UNCHANGED fs
                /\ ShReturn(w, shArg)
    /\ UNCHANGED <<cacheType, maxSize, items, lruList>>
    /\ UNCHANGED <<histVars, fileVars, renderVars, warmupVars, memVars, serverVars>>

\* FileCache.Get by a reader of any process: os.ReadFile
ShGet ==
    /\ LET r == FcGet(fs, ShKey)
       IN  cLast' = Returned("Get", ShKey, r.found, r.value)
    /\ UNCHANGED <<cacheVars, clock, lastUse, lastSet, lastStored>>
    /\ UNCHANGED <<fileVars, renderVars, warmupVars, memVars, shareVars, serverVars>>

\* no process is in FileCache.Set
ShareIdle ==
    /\ shMu = [p \in {} |-> None]
    /\ shPc = [w \in {} |-> "idle"]
    /\ shArg = [w \in {} |-> ShIdleArg]

----------------------------------------------------------------------------
(* Handlers.handleTileWithParams *)

\* the goroutine that serves HTTP; the warmup tasks are 1, 2, ...
HttpThreads == {0}

\* GET /images/{id}/tiles/{z}/{x}/{y}{ext}: parts is len(tileParts),
\* numeric whether Sscanf reads z, x and y
TileRequest(method, id, parts, numeric, z, x, y, ext) ==
    [method |-> method, id |-> id, parts |-> parts, numeric |-> numeric,
     z |-> z, x |-> x, y |-> y, ext |-> ext]

NoRequest == TileRequest("", "", 0, FALSE, 0, 0, 0, "")

Response(status, contentType, etag, size, body) ==
    [status |-> status, contentType |-> contentType, etag |-> etag,
     size |-> size, body |-> body]

NoResponse == Response(0, "", "", 0, NoValue)

\* http.Error
HttpError(status) == Response(status, "text/plain; charset=utf-8", "", 0, NoValue)

\* strings.TrimPrefix
TrimPrefix(str, prefix) ==
    IF Len(str) >= Len(prefix) /\ SubSeq(str, 1, Len(prefix)) = prefix
    THEN SubSeq(str, Len(prefix) + 1, Len(str))
    ELSE str

\* a check of the column and the row only
NegativeColumnRejected(z, x, y) == x < 0 \/ y < 0

\* if z < 0 || x < 0 || y < 0
NegativeRejected(z, x, y) == z < 0 \/ x < 0 \/ y < 0

\* format := strings.TrimPrefix(ext, "."), jpg, jpeg or webp, jpg as jpeg
AcceptedFormat(ext) == TrimPrefix(ext, ".") \in {"jpg", "jpeg", "webp"}

FormatOf(ext) ==
    LET format == TrimPrefix(ext, ".")
    IN  IF format = "jpg" THEN "jpeg" ELSE format

ContentType(format) == IF format = "webp" THEN "image/webp" ELSE "image/jpeg"

\* the status the handler refuses request r with before it renders, 0 if none
Refused(r) ==
    IF r.method \notin {"GET", "HEAD"} THEN 405
    ELSE IF r.parts < 3 THEN 400
    ELSE IF ~r.numeric THEN 400
    ELSE IF NegativeRejected(r.z, r.x, r.y) THEN 400
    ELSE IF ~AcceptedFormat(r.ext) THEN 400
    ELSE 0

\* handleTileWithParams up to the cache lookup of RenderTile
HandleTileBegin(g, r) ==
    /\ rtPc[g] = "idle"
    /\ httpReq' = [httpReq EXCEPT ![g] = r]
    /\ IF Refused(r) # 0
       THEN /\ httpResp' = [httpResp EXCEPT ![g] = HttpError(Refused(r))]
            /\ UNCHANGED <<cacheVars, renderVars>>
       ELSE /\ RenderTileBegin(g, [id |-> r.id, z |-> r.z, x |-> r.x, y |-> r.y])
            /\ UNCHANGED httpResp
    /\ UNCHANGED <<histVars, fileVars, warmupVars, memVars, shareVars, scanVars>>

\* RenderTile of the handler renders and stores
HandleTileRender(g) ==
    /\ RenderTileFinish(g)
    /\ UNCHANGED <<histVars, fileVars, warmupVars, restVars>>

\* RenderTile has returned: 500, or the headers and, unless HEAD, the bytes
HandleTileRespond(g) ==
    /\ rtPc[g] = "ret"
    /\ httpResp' = [httpResp EXCEPT ![g] =
          IF rtResult[g].err # None
          THEN HttpError(500)
          ELSE Response(200, ContentType(FormatOf(httpReq[g].ext)),
                        "\"" \o rtResult[g].etag \o "\"", rtResult[g].size,
                        IF httpReq[g].method = "HEAD" THEN NoValue
                        ELSE rtResult[g].data)]
    /\ RenderTileReturn(g)
    /\ UNCHANGED httpReq
    /\ UNCHANGED <<histVars, fileVars, warmupVars, memVars, shareVars, scanVars>>

----------------------------------------------------------------------------
(* Handlers.HandleUpload and Scanner.Scan *)

\* the images uploaded: the UUID given, the file name, the size
Uploads == { ImageInfo("c", "c.jpg", 300, 300), ImageInfo("d", "d.png", 100, 50) }

\* seq with elem at index i, the elements from i on moved up
InsertAt(seq, i, elem) == SubSeq(seq, 1, i - 1) \o <<elem>> \o SubSeq(seq, i, Len(seq))

\* ProcessUploadedFile: the image and its metadata are in dataDir under a
\* new UUID, which ReadDir lists at the place its name sorts to
UploadProcess(img, i) ==
    /\ scPc = "idle"
    /\ \A j \in DOMAIN disk : disk[j].ID # img.ID
    /\ i \in 1 .. (Len(disk) + 1)
    /\ disk' = InsertAt(disk, i, img)
    /\ scPc' = "scan"
    /\ UNCHANGED scAt
    /\ UNCHANGED <<cacheVars, histVars, fileVars, renderVars, warmupVars>>
    /\ UNCHANGED <<memVars, shareVars, httpVars>>

\* Scan: s.images = []ImageInfo{}, then cleanupOrphanedJSON and ReadDir
ScanReset ==
    /\ scPc = "scan"
    /\ images' = <<>>
    /\ scAt' = 1
    /\ scPc' = "loop"
    /\ UNCHANGED disk
    /\ UNCHANGED <<cacheVars, histVars, fileVars, warmupVars>>
    /\ UNCHANGED <<rtPc, rtCall, rtResult, rtMeta, memVars, shareVars, httpVars>>

\* Scan, one turn of its loop: loadMetadata and
\* s.images = append(s.images, *imageInfo)
ScanAppend ==
    /\ scPc = "loop"
    /\ scAt <= Len(disk)
    /\ images' = Append(images, disk[scAt])
    /\ scAt' = scAt + 1
    /\ UNCHANGED <<disk, scPc>>
    /\ UNCHANGED <<cacheVars, histVars, fileVars, warmupVars>>
    /\ UNCHANGED <<rtPc, rtCall, rtResult, rtMeta, memVars, shareVars, httpVars>>

\* Scan returns; HandleUpload looks the image up and answers
UploadRespond ==
    /\ scPc = "loop"
    /\ scAt > Len(disk)
    /\ scPc' = "idle"
    /\ scAt' = 0
    /\ UNCHANGED disk
    /\ UNCHANGED <<cacheVars, histVars, fileVars, renderVars, warmupVars>>
    /\ UNCHANGED <<memVars, shareVars, httpVars>>

HttpIdle ==
    /\ httpReq = [g \in HttpThreads |-> NoRequest]
    /\ httpResp = [g \in HttpThreads |-> NoResponse]

\* no upload: the data directory is not followed
ScanIdle ==
    /\ disk = <<>>
    /\ scPc = "idle"
    /\ scAt = 0

ServerIdle == HttpIdle /\ ScanIdle

RestIdle == MemIdle /\ ShareIdle /\ ServerIdle

----------------------------------------------------------------------------
(* The specifications *)

HistIdle ==
    /\ clock = 0
    /\ lastUse = [k \in CacheKeys |-> 0]
    /\ lastSet = NoHistory
    /\ lastStored = NoHistory
    /\ cLast = Returned("New", NilKey, FALSE, NoValue)

\* cache.NewCache: an empty cache of one of the types
NewCache(types, sizes) ==
    /\ cacheType \in types
    /\ maxSize \in IF cacheType = "memory" THEN sizes ELSE {0}
    /\ items = EmptyMap
    /\ lruList = <<>>
    /\ fs = EmptyMap

\* image_renderer.New over a scanned catalog; gs: the goroutines that call it
NewRenderer(catalogs, gs) ==
    /\ images \in catalogs
    /\ rtPc = [g \in gs |-> "idle"]
    /\ rtCall = [g \in gs |-> NoCall]
    /\ rtResult = [g \in gs |-> NoResult]
    /\ rtMeta = NoMeta

WarmupOff ==
    /\ wuLevels = 0
    /\ wuWorkers = 1
    /\ wuPlan = <<>>
    /\ wuPc = "off"
    /\ wuNext = 1
    /\ workerChan = 0
    /\ wg = 0
    /\ wuTask = <<>>
    /\ wuFailed = {}

NextCache ==
    \/ \E k \in CacheKeys : MemHas(k) \/ MemGet(k) \/ NoopCacheGet(k)
    \/ \E k \in CacheKeys, v \in CacheValues : MemSet(k, v) \/ NoopCacheSet(k, v)
    \/ \E k \in FileKeys : FileGet(k)
    \/ \E k \in FileKeys, v \in CacheValues : FileSet(k, v)
    \/ MemClear \/ FileClear \/ NoopCacheClear

InitCacheOnly ==
    /\ InitCache /\ FileIdle /\ RestIdle /\ NewRenderer({<<>>}, {}) /\ WarmupOff

SpecCache == InitCacheOnly /\ [][NextCache]_vars

InitFile ==
    /\ NewCache({"file"}, {0}) /\ HistIdle /\ FileIdle /\ RestIdle
    /\ NewRenderer({<<>>}, {}) /\ WarmupOff

NextFile ==
    \/ \E t \in FcThreads, k \in FileKeys, v \in FileValues : FcSetLock(t, k, v)
    \/ \E t \in FcThreads :
          FcSetMkdir(t) \/ FcSetOpen(t) \/ FcSetWrite(t) \/ FcSetRename(t)
    \/ \E k \in FileKeys : FcGetFile(k)
    \/ FcClearFile
    \/ FcKill

SpecFile == InitFile /\ [][NextFile]_vars

\* the goroutines that call RenderTile in SpecRender
RtThreads == {"h1", "h2"}

Req(id, z, x, y) == [id |-> id, z |-> z, x |-> x, y |-> y]

\* the calls made: an unknown image; of image a (maxZoom 2, 3 x 2 tiles at
\* zoom 2) a negative zoom (a tile that needs padding), a full tile, a
\* column and a row beyond the image, a zoom above maxZoom, a negative column
Requests ==
    { Req("zz", 0, 0, 0),
      Req("a", -1, 0, 0), Req("a", 2, 0, 0),
      Req("a", 2, 3, 0), Req("a", 2, 0, 2), Req("a", 3, 0, 0), Req("a", 2, -1, 0) }

\* cacheKey of a call on a known image
KeyOf(imgs, req) ==
    LET info == GetImageByID(imgs, req.id)
    IN  TileKey(req.id, TileSize, CalculateMaxZoom(info.Width, info.Height),
                req.z, req.x, req.y, "jpeg")

RenderKeys ==
    { KeyOf(Catalog, r) : r \in { q \in Requests : GetImageByID(Catalog, q.id) # NilImage } }

\* what a Get of key would return from the backend in use, NoValue on a miss
CacheValue(its, fsys, key) ==
    CASE cacheType = "memory" ->
           IF key \in DOMAIN its THEN its[key].value ELSE NoValue
      [] cacheType = "file" -> FcGet(fsys, key).value
      [] OTHER -> NoValue

\* history: the bytes RenderTile returned when it stored a key, for as long
\* as the cache holds the key
StillStored(k) ==
    IF CacheValue(items', fs', k) = NoValue THEN NoValue ELSE lastStored[k]

\* a call of RenderTile by goroutine g
CallRenderTile(g, req) ==
    /\ RenderTileBegin(g, req)
    /\ lastStored' = [k \in DOMAIN lastStored |-> StillStored(k)]
    /\ UNCHANGED <<clock, lastUse, lastSet, cLast>>
    /\ UNCHANGED <<fileVars, restVars, warmupVars>>

\* the render and the cache write of goroutine g
RenderAndStore(g) ==
    /\ RenderTileFinish(g)
    /\ lastStored' =
          [k \in DOMAIN lastStored |->
             IF /\ k = rtCall[g].key
                /\ rtResult'[g].err = None
                /\ CacheValue(items', fs', k) = rtResult'[g].data
             THEN rtResult'[g].data
             ELSE StillStored(k)]
    /\ UNCHANGED <<clock, lastUse, lastSet, cLast>>
    /\ UNCHANGED <<fileVars, restVars, warmupVars>>

\* goroutine g has its result
TakeResult(g) ==
    /\ RenderTileReturn(g)
    /\ UNCHANGED <<histVars, fileVars, restVars, warmupVars>>

InitRender ==
    /\ NewCache(CacheTypes, 0 .. MaxTiles)
    /\ clock = 0
    /\ lastUse = [k \in RenderKeys |-> 0]
    /\ lastSet = [k \in RenderKeys |-> NoValue]
    /\ lastStored = [k \in RenderKeys |-> NoValue]
    /\ cLast = Returned("New", NilKey, FALSE, NoValue)
    /\ FileIdle
    /\ RestIdle
    /\ NewRenderer({Catalog}, RtThreads)
    /\ WarmupOff

NextRender ==
    \/ \E g \in RtThreads, req \in Requests : CallRenderTile(g, req)
    \/ \E g \in RtThreads : RenderAndStore(g)
    \/ \E g \in RtThreads : TakeResult(g)

SpecRender == InitRender /\ [][NextRender]_vars

\* the backends the warmup is run on
\* SpecNoop: RenderTile and direct cache calls on the disabled cache

NoopThreads == {"h1"}

\* the keys of the direct cache calls: a full tile of image a and one that
\* needs padding
NoopKeys == { KeyOf(Catalog, Req("a", 2, 0, 0)), KeyOf(Catalog, Req("a", -1, 0, 0)) }

InitNoop ==
    /\ NewCache({"disabled"}, {0})
    /\ clock = 0
    /\ lastUse = [k \in RenderKeys |-> 0]
    /\ lastSet = [k \in RenderKeys |-> NoValue]
    /\ lastStored = [k \in RenderKeys |-> NoValue]
    /\ cLast = Returned("New", NilKey, FALSE, NoValue)
    /\ FileIdle
    /\ RestIdle
    /\ NewRenderer({Catalog}, NoopThreads)
    /\ WarmupOff

NextNoop ==
    \/ \E k \in NoopKeys : NoopCacheGet(k)
    \/ \E k \in NoopKeys, v \in CacheValues : NoopCacheSet(k, v)
    \/ NoopCacheClear
    \/ \E g \in NoopThreads, req \in Requests : CallRenderTile(g, req)
    \/ \E g \in NoopThreads : RenderAndStore(g)
    \/ \E g \in NoopThreads : TakeResult(g)

SpecNoop == InitNoop /\ [][NextNoop]_vars

\* SpecMem: the memory cache called by two goroutines, method by method

\* the capacities tried
MemSizes == {2, 3}

\* the bytes Set stores
MemValues == { <<1>> }

InitMem ==
    /\ NewCache({"memory"}, MemSizes)
    /\ HistIdle
    /\ FileIdle
    /\ mcMu = [writer |-> None, readers |-> {}]
    /\ mcPc = [t \in McThreads |-> "idle"]
    /\ mcArg = [t \in McThreads |-> McIdleCall]
    /\ mcList = NewList
    /\ ShareIdle
    /\ ServerIdle
    /\ NewRenderer({<<>>}, {})
    /\ WarmupOff

NextMem ==
    \/ \E t \in McThreads, k \in CacheKeys : McRLock(t, "Has", k)
    \/ \E t \in McThreads, k \in CacheKeys : McRLock(t, "Get", k)
    \/ \E t \in McThreads, k \in CacheKeys, v \in MemValues : McLock(t, "Set", k, v)
    \/ \E t \in McThreads : McLock(t, "Clear", NilKey, NoValue)
    \/ \E t \in McThreads : McHasBody(t)
    \/ \E t \in McThreads : McGetLookup(t)
    \/ \E t \in McThreads, n \in 1 .. 6 : McGetMove(t, n)
    \/ \E t \in McThreads : McGetReturn(t)
    \/ \E t \in McThreads : McSetRun(t)
    \/ \E t \in McThreads : McClearRun(t)

SpecMem == InitMem /\ [][NextMem]_vars

\* SpecShare: FileCache.Set of one tile by goroutines of two processes

InitShare ==
    /\ NewCache({"file"}, {0})
    /\ HistIdle
    /\ FileIdle
    /\ MemIdle
    /\ ServerIdle
    /\ shMu = [p \in ShProcs |-> None]
    /\ shPc = [w \in ShWriters |-> "idle"]
    /\ shArg = [w \in ShWriters |-> ShIdleArg]
    /\ NewRenderer({<<>>}, {})
    /\ WarmupOff

NextShare ==
    \/ \E w \in ShWriters, v \in FileValues : ShSetLock(w, v)
    \/ \E w \in ShWriters : ShSetMkdir(w)
    \/ \E w \in ShWriters : ShSetOpen(w)
    \/ \E w \in ShWriters : ShSetWrite(w)
    \/ \E w \in ShWriters : ShSetRename(w)
    \/ ShGet

SpecShare == InitShare /\ [][NextShare]_vars

WarmupCaches == {"memory", "disabled"}

\* main: config.Load, cache.NewCache, image_renderer.New, then warmupTiles
\* in its goroutine when WarmupLevels > 0
InitWarmup ==
    /\ NewCache(WarmupCaches, {1})
    /\ HistIdle
    /\ FileIdle
    /\ RestIdle
    /\ wuLevels \in 0 .. MaxLevels
    /\ wuWorkers \in 0 .. MaxWorkers
    /\ images \in {<<>>, Catalog}
    /\ wuPlan = WarmupPlan(images, 1, wuLevels)
    /\ NewRenderer({images}, DOMAIN wuPlan)
    /\ wuPc = IF WarmupEnabled(wuLevels) THEN "start" ELSE "off"
    /\ wuNext = 1
    /\ workerChan = 0
    /\ wg = 0
    /\ wuTask = [t \in DOMAIN wuPlan |-> "none"]
    /\ wuFailed = {}

NextWarmup ==
    \/ WarmupStart
    \/ WarmupAdd
    \/ WarmupSubmit
    \/ WarmupWait
    \/ \E t \in DOMAIN wuTask : TaskRender(t)
    \/ \E t \in DOMAIN wuTask : TaskRenderFinish(t)
    \/ \E t \in DOMAIN wuTask : TaskRelease(t)
    \/ \E t \in DOMAIN wuTask : TaskDone(t)

SpecWarmup == InitWarmup /\ [][NextWarmup]_vars

\* the Go scheduler: while some goroutine of the warmup can take a step,
\* one of them does; every RenderTile call terminates (RenderTileFinish)
SpecWarmupFair == SpecWarmup /\ WF_vars(NextWarmup)

\* a call of GetImageMeta
CallGetImageMeta(id) ==
    /\ rtMeta' = GetImageMeta(images, id)
    /\ UNCHANGED <<images, rtPc, rtCall, rtResult>>
    /\ UNCHANGED <<cacheVars, histVars, fileVars, restVars, warmupVars>>

\* image widths and heights around the powers of two times the tile edge
MetaSizes == {1, 255, 256, 257, 512, 513, 1024, 1025, 8000, 8192, 8193, 10000}

\* catalogs of one image a of each size
MetaCatalogs ==
    { << ImageInfo("a", "a.tif", w, h) >> : w \in MetaSizes, h \in MetaSizes }

\* the calls of SpecMeta: an unknown image and the zoom 0 tile of image a
MetaRequests == { Req("zz", 0, 0, 0), Req("a", 0, 0, 0) }

\* the goroutine of SpecMeta
MetaThreads == {"h1"}

InitMeta ==
    /\ NewCache({"memory"}, {1})
    /\ HistIdle
    /\ FileIdle
    /\ RestIdle
    /\ NewRenderer(MetaCatalogs, MetaThreads)
    /\ WarmupOff

NextMeta ==
    \/ \E id \in {"a", "zz"} : CallGetImageMeta(id)
    \/ \E g \in MetaThreads, req \in MetaRequests : CallRenderTile(g, req)
    \/ \E g \in MetaThreads : RenderAndStore(g)
    \/ \E g \in MetaThreads : TakeResult(g)

\* GetImageMeta and RenderTile of the zoom 0 tile over one image of any size
SpecMeta == InitMeta /\ [][NextMeta]_vars

\* largest column and row asked for in SpecTiles
MaxX == 5
MaxY == 3

\* catalogs of one image a: a single pixel, exactly one tile, two and three
\* zoom levels with sides on and off the multiples of the tile edge
TileCatalogs ==
    { << ImageInfo("a", "a.tif", d[1], d[2]) >> :
        d \in { <<1, 1>>, <<256, 256>>, <<257, 100>>, <<600, 300>>, <<512, 513>>,
                <<1023, 1>>, <<1025, 300>> } }

\* the goroutine of SpecTiles
TileThreads == {"h1"}

InitTiles ==
    /\ NewCache({"disabled"}, {0})
    /\ HistIdle
    /\ FileIdle
    /\ RestIdle
    /\ NewRenderer(TileCatalogs, TileThreads)
    /\ WarmupOff

\* RenderTile of image a at every zoom from -1 to maxZoom + 1 and every
\* column and row from -1 to MaxX and MaxY
NextTiles ==
    \/ \E g \in TileThreads :
          \E z \in -1 .. (CalculateMaxZoom(images[1].Width, images[1].Height) + 1),
             x \in -1 .. MaxX, y \in -1 .. MaxY :
             CallRenderTile(g, Req("a", z, x, y))
    \/ \E g \in TileThreads : RenderAndStore(g)
    \/ \E g \in TileThreads : TakeResult(g)

\* the geometry of RenderTile over images of several sizes, no cache
SpecTiles == InitTiles /\ [][NextTiles]_vars

\* the methods each cache type defines
\* SpecHttp: the tile handler beside the warmup, over a memory or a file
\* cache: a server without warmup over images a and b, and one that warms
\* up one level over image b alone

\* WARMUP_LEVELS of the servers of SpecHttp
HttpLevels == {0, 1}

\* the catalog of the server with WARMUP_LEVELS levels
HttpCatalog(levels) == IF levels = 0 THEN Catalog ELSE <<Catalog[2]>>

\* the tiles asked for over HTTP: of image a (maxZoom 2, 3 x 2 tiles at
\* zoom 2) a full tile, a negative zoom, a column and a row beyond the
\* image, a zoom above maxZoom, a negative column, a tile the warmup
\* renders too; of image b (maxZoom 0, one tile) the tile, a negative zoom,
\* a column beyond the image, a zoom above maxZoom; a tile of an unknown image
HttpTiles ==
    { <<"a", 2, 0, 0>>, <<"a", -1, 0, 0>>, <<"a", 2, 3, 0>>, <<"a", 2, 0, 2>>,
      <<"a", 3, 0, 0>>, <<"a", 2, -1, 0>>, <<"a", 1, 1, 0>>,
      <<"b", 0, 0, 0>>, <<"b", -1, 0, 0>>, <<"b", 0, 1, 0>>, <<"b", 1, 0, 0>>,
      <<"zz", 0, 0, 0>> }

HttpRequests ==
    { TileRequest("GET", t[1], 3, TRUE, t[2], t[3], t[4], ".jpg") : t \in HttpTiles }
    \cup { TileRequest("GET", "a", 3, TRUE, 2, 0, 0, ext) : ext \in {".webp", ".png"} }
    \cup { TileRequest("HEAD", "a", 3, TRUE, 2, 0, 0, ".jpeg"),
           TileRequest("POST", "a", 3, TRUE, 2, 0, 0, ".jpg"),
           TileRequest("GET", "a", 2, TRUE, 2, 0, 0, ""),
           TileRequest("GET", "a", 3, FALSE, 0, 0, 0, ".jpg") }

InitHttp ==
    /\ NewCache({"memory", "file"}, {2})
    /\ HistIdle
    /\ FileIdle
    /\ MemIdle
    /\ ShareIdle
    /\ ScanIdle
    /\ wuLevels \in HttpLevels
    /\ wuWorkers = 1
    /\ images = HttpCatalog(wuLevels)
    /\ wuPlan = WarmupPlan(images, 1, wuLevels)
    /\ NewRenderer({images}, DOMAIN wuPlan \cup HttpThreads)
    /\ httpReq = [g \in HttpThreads |-> NoRequest]
    /\ httpResp = [g \in HttpThreads |-> NoResponse]
    /\ wuPc = IF WarmupEnabled(wuLevels) THEN "start" ELSE "off"
    /\ wuNext = 1
    /\ workerChan = 0
    /\ wg = 0
    /\ wuTask = [t \in DOMAIN wuPlan |-> "none"]
    /\ wuFailed = {}

NextHttp ==
    \/ \E g \in HttpThreads, r \in HttpRequests : HandleTileBegin(g, r)
    \/ \E g \in HttpThreads : HandleTileRender(g)
    \/ \E g \in HttpThreads : HandleTileRespond(g)
    \/ WarmupStart
    \/ WarmupAdd
    \/ WarmupSubmit
    \/ WarmupWait
    \/ \E t \in DOMAIN wuTask : TaskRender(t)
    \/ \E t \in DOMAIN wuTask : TaskRenderFinish(t)
    \/ \E t \in DOMAIN wuTask : TaskRelease(t)
    \/ \E t \in DOMAIN wuTask : TaskDone(t)

SpecHttp == InitHttp /\ [][NextHttp]_vars

\* SpecScan: tile requests while uploads rescan the data directory

\* the tiles asked for: the first tile of a, b and the first upload
ScanRequests ==
    { TileRequest("GET", id, 3, TRUE, 0, 0, 0, ".jpg") : id \in {"a", "b", "c"} }

\* main: the first Scan is over before the server listens
InitScan ==
    /\ NewCache({"disabled", "memory"}, {1})
    /\ HistIdle
    /\ FileIdle
    /\ MemIdle
    /\ ShareIdle
    /\ HttpIdle
    /\ disk = Catalog
    /\ scPc = "idle"
    /\ scAt = 0
    /\ NewRenderer({disk}, HttpThreads)
    /\ WarmupOff

NextScan ==
    \/ \E g \in HttpThreads, r \in ScanRequests : HandleTileBegin(g, r)
    \/ \E g \in HttpThreads : HandleTileRender(g)
    \/ \E g \in HttpThreads : HandleTileRespond(g)
    \/ \E img \in Uploads, i \in 1 .. (Len(Catalog) + Cardinality(Uploads)) :
          UploadProcess(img, i)
    \/ ScanReset
    \/ ScanAppend
    \/ UploadRespond

SpecScan == InitScan /\ [][NextScan]_vars

MemoryCacheMethods == { "Has", "Get", "Set", "Clear" }
FileCacheMethods == { "Get", "Set", "Clear" }
NoopCacheMethods == { "Get", "Set", "Clear" }

\* NewCache: the methods of the cache it returns for a cache type
MethodSet(type) ==
    CASE type = "memory" -> MemoryCacheMethods
      [] type = "file" -> FileCacheMethods
      [] OTHER -> NoopCacheMethods

\* SpecDir: one cache directory used by a file cache over process restarts.
\* Here lastSet and lastStored start afresh at every Clear, and clock counts
\* the restarts.

\* FileCache.Get
DirGet(key) ==
    /\ LET r == FcGet(fs, key)
       IN  cLast' = Returned("Get", key, r.found, r.value)
    /\ UNCHANGED <<cacheVars, clock, lastUse, lastSet, lastStored>>
    /\ UNCHANGED <<fileVars, restVars, renderVars, warmupVars>>

\* FileCache.Set, returned
DirSet(key, value) ==
    /\ \E r \in FcSet(fs, key, value) :
          /\ fs' = r.fs
          /\ cLast' = Returned("Set", key, r.stored, value)
          /\ lastStored' = IF r.stored THEN [lastStored EXCEPT ![key] = value]
                                       ELSE lastStored
    /\ lastSet' = [lastSet EXCEPT ![key] = value]
    /\ UNCHANGED <<cacheType, maxSize, items, lruList, clock, lastUse>>
    /\ UNCHANGED <<fileVars, restVars, renderVars, warmupVars>>

\* FileCache.Clear
DirClear ==
    /\ \E f \in FcClear(fs) : fs' = f
    /\ cLast' = Returned("Clear", NilKey, FALSE, NoValue)
    /\ lastSet' = NoHistory
    /\ lastStored' = NoHistory
    /\ UNCHANGED <<cacheType, maxSize, items, lruList, clock, lastUse>>
    /\ UNCHANGED <<fileVars, restVars, renderVars, warmupVars>>

\* the process ends between two cache calls and a new one runs NewFileCache
\* on the same directory
DirRestart ==
    /\ clock < MaxRestarts
    /\ clock' = clock + 1
    /\ fs' = NewFileCacheOn(fs)
    /\ cLast' = Returned("New", NilKey, FALSE, NoValue)
    /\ UNCHANGED <<cacheType, maxSize, items, lruList, lastUse, lastSet, lastStored>>
    /\ UNCHANGED <<fileVars, restVars, renderVars, warmupVars>>

\* the process is killed inside a Set, which never returns, and a new one
\* runs NewFileCache on the same directory
DirKill(key, value) ==
    /\ clock < MaxRestarts
    /\ clock' = clock + 1
    /\ \E r \in FcSetCut(fs, key, value) :
          /\ fs' = NewFileCacheOn(r.fs)
          /\ lastStored' = IF r.stored THEN [lastStored EXCEPT ![key] = value]
                                       ELSE lastStored
    /\ cLast' = Returned("New", NilKey, FALSE, NoValue)
    /\ UNCHANGED <<cacheType, maxSize, items, lruList, lastUse, lastSet>>
    /\ UNCHANGED <<fileVars, restVars, renderVars, warmupVars>>

InitDir ==
    /\ NewCache({"file"}, {0})
    /\ HistIdle
    /\ FileIdle
    /\ RestIdle
    /\ NewRenderer({<<>>}, {})
    /\ WarmupOff

NextDir ==
    \/ \E k \in FileKeys : DirGet(k)
    \/ \E k \in FileKeys, v \in CacheValues : DirSet(k, v)
    \/ DirClear
    \/ DirRestart
    \/ \E k \in FileKeys, v \in CacheValues : DirKill(k, v)

SpecDir == InitDir /\ [][NextDir]_vars

----------------------------------------------------------------------------
(* Claims about the cache *)

Held == DOMAIN items

\* C1: in the memory cache with capacity >= 1, a Set of a key that is not
\* held while maxSize entries are held removes exactly one entry, the one
\* whose latest access (a Set of it or a Get that hit it) is older than that
\* of every other entry held, and adds the new key.
C1_SetEvictsLeastRecentlyUsed ==
    [][ ( /\ cacheType = "memory" /\ maxSize >= 1
          /\ cLast'.op = "Set" /\ clock' = clock + 1
          /\ cLast'.key \notin Held
          /\ Cardinality(Held) = maxSize )
        => \E e \in Held :
              /\ DOMAIN items' = (Held \ {e}) \cup {cLast'.key}
              /\ \A o \in Held \ {e} : lastUse[e] < lastUse[o] ]_vars

\* a Set has just evicted a key while a key read or set right before it,
\* and held longer than the evicted one was last used, survives
C1_Witness ==
    /\ cacheType = "memory" /\ maxSize = 2
    /\ cLast.op = "Set" /\ cLast.evicted # {}
    /\ clock = 4
    /\ \E k \in Held : k # cLast.key /\ lastUse[k] = 3

\* C2: the memory cache never holds more entries than its configured
\* capacity, for any capacity >= 0.
C2_NeverExceedsCapacity ==
    cacheType = "memory" => (Cardinality(Held) <= maxSize /\ Len(lruList) <= maxSize)

\* C3 as stated: a Get that reports found returns the bytes of the most
\* recent Set call for that key, on every backend.
C3_GetReturnsLastSet ==
    (cLast.op = "Get" /\ cLast.found) => cLast.value = lastSet[cLast.key]

\* C3 as amended: a Get that reports found returns the bytes of the most
\* recent Set call for that key that stored them (on the file backend a Set
\* whose directory creation, temporary write or rename failed stores
\* nothing), never bytes stored under another key.
C3_GetReturnsLastStored ==
    (cLast.op = "Get" /\ cLast.found) => cLast.value = lastStored[cLast.key]

\* a Get hits on a key whose value was overwritten, while another key holds
\* a different value
C3_Witness ==
    /\ cLast.op = "Get" /\ cLast.found
    /\ cLast.value = <<2>>
    /\ \E k \in CacheKeys : k # cLast.key /\ lastStored[k] = <<1>>
    /\ cacheType = "file"

----------------------------------------------------------------------------
(* Claims about the file cache, step by step *)

\* the values of the Sets of key that ran to the end of the rename
Completed(key) == { v \in FileValues : <<key, v>> \in fcDone }

\* C4: in every state of the file cache, between the steps of a Set in
\* progress and after a kill at any step, the file at a tile's final path
\* is absent or holds the complete bytes of a completed Set of that key; a
\* Get that finds returns such bytes, and a Get of a key whose only Sets
\* were aborted misses.
C4_FinalPathAbsentOrComplete ==
    /\ \A k \in FileKeys :
          buildFilePath(k) \in DOMAIN fs => fs[buildFilePath(k)] \in Completed(k)
    /\ (fcLast.op = "Get" /\ fcLast.found) => fcLast.value \in Completed(fcLast.key)
    /\ (fcLast.op = "Get" /\ fcLast.key \in fcAborted /\ Completed(fcLast.key) = {})
          => ~fcLast.found

\* a Get after the process was killed in the middle of the first write of
\* the key, the half-written temporary file still on disk: it missed
C4_Witness ==
    /\ fcLast.op = "Get" /\ ~fcLast.found
    /\ fcLast.key \in fcAborted
    /\ Completed(fcLast.key) = {}
    /\ TmpPath(buildFilePath(fcLast.key)) \in DOMAIN fs
    /\ fs[TmpPath(buildFilePath(fcLast.key))] = <<1>>
    /\ \E k \in FileKeys : buildFilePath(k) \in DOMAIN fs

----------------------------------------------------------------------------
(* Claims about RenderTile *)

Last(seq) == seq[Len(seq)]

\* goroutine g's RenderTile returns in this step
Finishing(g) == rtPc[g] # "ret" /\ rtPc'[g] = "ret"

\* what the cache answers for each key that RenderTile may build
ContentsOf(its, fsys) == [k \in RenderKeys |-> CacheValue(its, fsys, k)]

\* the zoom of call c is outside [0, maxZoom], or the clamped source
\* rectangle of its tile is empty
OutOfRange(c) ==
    \/ c.z < 0
    \/ c.z > c.maxZoom
    \/ BoundsRejected(TileBounds(c.info, c.maxZoom, c.z, c.x, c.y))

\* C5: a RenderTile call on a known image whose zoom is outside
\* [0, maxZoom] or whose clamped source rectangle has width <= 0 or
\* height <= 0 returns an error and no tile.
C5_OutOfRangeRejected ==
    \A g \in DOMAIN rtPc :
       (rtPc[g] = "ret" /\ rtCall[g].info # NilImage /\ OutOfRange(rtCall[g]))
         => (rtResult[g].err # None /\ rtResult[g].data = NoValue)

\* C6: a RenderTile that returns an error leaves the cache exactly as it
\* was and returns no bytes; a RenderTile that returns a rendered tile got
\* it from the encode step, and the cache then answers for its key with
\* exactly the bytes returned (or as before, when the backend could not
\* store them), and for other keys as before or not at all; the cache
\* never changes in any other step.
C6_ErrorLeavesCacheUnchanged ==
    [][ /\ \A g \in RtThreads :
             /\ (Finishing(g) /\ rtResult'[g].err # None)
                  => /\ items' = items /\ lruList' = lruList /\ fs' = fs
                     /\ rtResult'[g].data = NoValue
             /\ (Finishing(g) /\ rtResult'[g].err = None /\ ~rtResult'[g].hit)
                  => /\ Last(rtResult'[g].steps) = "encode"
                     /\ \A k \in RenderKeys :
                           CacheValue(items', fs', k) \in
                             IF k = rtCall[g].key
                             THEN {rtResult'[g].data, CacheValue(items, fs, k)}
                             ELSE {CacheValue(items, fs, k), NoValue}
        /\ (ContentsOf(items', fs') # ContentsOf(items, fs))
             => \E g \in RtThreads :
                   Finishing(g) /\ rtResult'[g].err = None /\ ~rtResult'[g].hit
      ]_vars

\* the encode step of a padded tile failed, the cache holding another tile:
\* nothing was stored for the failed one
C6_Witness ==
    \E g \in RtThreads :
       /\ rtPc[g] = "ret"
       /\ rtResult[g].err = "failed to export"
       /\ rtResult[g].steps = <<"open", "extract", "resize", "pad", "encode">>
       /\ CacheValue(items, fs, rtCall[g].key) = NoValue
       /\ \E k \in RenderKeys : CacheValue(items, fs, k) # NoValue

----------------------------------------------------------------------------
(* Claims about the warmup *)

\* the tasks whose RenderTile call is in flight
InFlight == { t \in DOMAIN wuTask : wuTask[t] = "running" }

\* the tasks that hold a slot of workerChan
SlotHolders == { t \in DOMAIN wuTask : wuTask[t] \in {"spawned", "running"} }

\* C8: at every instant of a warmup with worker limit W (1 when the
\* configured value is <= 0) at most W RenderTile calls are in flight over
\* all images; every started task holds a slot from before its start until
\* its render has returned, and no more than W slots are ever held.
C8_AtMostWInFlight ==
    /\ Cardinality(InFlight) <= WorkerLimit(wuWorkers)
    /\ InFlight \subseteq SlotHolders
    /\ workerChan = Cardinality(SlotHolders)
    /\ workerChan <= WorkerLimit(wuWorkers)
    /\ \A t \in DOMAIN wuTask : rtPc[t] # "idle" => t \in InFlight

\* two renders in flight with W = 2 and the submission of a third task
\* waiting for a slot
C8_Witness ==
    /\ wuWorkers = 2
    /\ Cardinality(InFlight) = 2
    /\ \A t \in InFlight : rtPc[t] = "render"
    /\ wuPc = "acquire"
    /\ wuNext = 3
    /\ ~SlotFree

\* the tasks warmupTiles has submitted
Submitted == { t \in DOMAIN wuTask : t < wuNext }

\* C9: a warmup that starts eventually returns, and it has returned only
\* if every task it submitted has finished, whatever the task's result.
C9_WarmupReturns ==
    /\ (wuPc = "start") ~> (wuPc = "done")
    /\ [](wuPc = "done" =>
            /\ wuNext > Len(wuPlan) \/ Len(images) = 0
            /\ wg = 0
            /\ \A t \in Submitted : wuTask[t] = "finished")

\* a warmup of four tiles has returned, one worker, some renders failed and
\* some succeeded
C9_Witness ==
    /\ wuPc = "done"
    /\ wuWorkers = 1
    /\ Cardinality(Submitted) = 4
    /\ \A t \in Submitted : wuTask[t] = "finished"
    /\ Cardinality(wuFailed) = 2

\* the zoom levels of image id that the warmup has rendered tiles of
LevelsRendered(id) ==
    { wuPlan[t].z : t \in { u \in DOMAIN wuTask : wuTask[u] = "finished" /\ wuPlan[u].id = id } }

\* the number of zoom levels of an image: 0 .. maxZoom
LevelsOf(img) == CalculateMaxZoom(img.Width, img.Height) + 1

\* C10: with WARMUP_LEVELS = L a warmup that has returned has rendered
\* exactly L zoom levels of each image, or all its levels if it has fewer,
\* and with L = 0 nothing is rendered.
C10_ExactlyLLevels ==
    /\ wuPc = "done" =>
          \A i \in DOMAIN images :
             Cardinality(LevelsRendered(images[i].ID)) = Min(wuLevels, LevelsOf(images[i]))
    /\ wuLevels = 0 => \A t \in DOMAIN wuTask : wuTask[t] = "none"

----------------------------------------------------------------------------
(* Claims about CalculateMaxZoom and GetImageMeta *)

\* M is the least exponent with 256 * 2^M >= dim, and 0 when dim <= 256
LeastZoom(M, dim) ==
    /\ M >= 0
    /\ TileSize * Pow2(M) >= dim
    /\ M > 0 => TileSize * Pow2(M - 1) < dim
    /\ dim <= TileSize => M = 0

\* C11: for every image with width, height >= 1 the maxZoom M that
\* CalculateMaxZoom returns (and GetImageMeta reports) is >= 0 with
\* 256 * 2^M >= max(width, height), with 256 * 2^(M-1) < max(width, height)
\* when M > 0, and 0 when max(width, height) <= 256; M does not decrease
\* when max(width, height) grows.
C11_MaxZoomIsLeastCover ==
    /\ \A i \in DOMAIN images :
          LET dim == Max(images[i].Width, images[i].Height)
              M == CalculateMaxZoom(images[i].Width, images[i].Height)
          IN  /\ LeastZoom(M, dim)
              /\ \A w \in MetaSizes, h \in MetaSizes :
                    Max(w, h) >= dim => CalculateMaxZoom(w, h) >= M
    /\ rtMeta.err = None => LeastZoom(rtMeta.maxZoom, Max(rtMeta.width, rtMeta.height))
    /\ \A g \in DOMAIN rtPc :
          rtCall[g].info # NilImage
            => LeastZoom(rtCall[g].maxZoom, Max(rtCall[g].info.Width, rtCall[g].info.Height))

\* GetImageMeta of a 10000 x 8000 image has reported maxZoom 6
C11_Witness ==
    /\ rtMeta.err = None
    /\ rtMeta.width = 10000 /\ rtMeta.height = 8000
    /\ rtMeta.maxZoom = 6

----------------------------------------------------------------------------
(* Claims about the geometry of the tiles *)

\* the columns and rows of the grid of image info at zoom z
GridX(info, maxZoom, z) == 0 .. (TilesAcross(info.Width, maxZoom, z) - 1)
GridY(info, maxZoom, z) == 0 .. (TilesAcross(info.Height, maxZoom, z) - 1)

\* rectangles a and b have no pixel in common
Disjoint(a, b) ==
    \/ a.endX <= b.startX \/ b.endX <= a.startX
    \/ a.endY <= b.startY \/ b.endY <= a.startY

RECURSIVE SumOver(_, _)
SumOver(f, S) ==
    IF S = {} THEN 0
    ELSE LET e == CHOOSE e \in S : TRUE IN f[e] + SumOver(f, S \ {e})

\* the rectangles of the grid at zoom z are non-empty, inside the image,
\* pairwise disjoint and cover width x height pixels: they tile the image
GridTilesImage(info, maxZoom, z) ==
    LET cells == GridX(info, maxZoom, z) \X GridY(info, maxZoom, z)
        rect == [c \in cells |-> TileBounds(info, maxZoom, z, c[1], c[2])]
    IN  /\ \A c \in cells :
              /\ ~BoundsRejected(rect[c])
              /\ rect[c].startX >= 0 /\ rect[c].endX <= info.Width
              /\ rect[c].startY >= 0 /\ rect[c].endY <= info.Height
        /\ \A c, d \in cells : c # d => Disjoint(rect[c], rect[d])
        /\ SumOver([c \in cells |-> rect[c].width * rect[c].height], cells)
              = info.Width * info.Height

\* the tiles of the grid tile the image at every zoom of 0 .. maxZoom
C12_GridHolds ==
    \A i \in DOMAIN images :
       LET maxZoom == CalculateMaxZoom(images[i].Width, images[i].Height)
       IN  \A z \in 0 .. maxZoom : GridTilesImage(images[i], maxZoom, z)

\* C12: for every image and zoom z in [0, maxZoom] the source rectangles
\* RenderTile computes over the grid are non-empty, pairwise disjoint and
\* their union is the image; every (x, y) outside the grid that RenderTile
\* is called with yields an empty rectangle.
C12_GridTilesExactly ==
    /\ C12_GridHolds
    /\ \A g \in DOMAIN rtPc :
          LET c == rtCall[g]
          IN  ( /\ rtPc[g] # "idle" /\ c.info # NilImage
                /\ c.z >= 0 /\ c.z <= c.maxZoom
                /\ ~ ( c.x \in GridX(c.info, c.maxZoom, c.z)
                        /\ c.y \in GridY(c.info, c.maxZoom, c.z) ) )
              => BoundsRejected(TileBounds(c.info, c.maxZoom, c.z, c.x, c.y))

\* the same, for the columns and rows that are not negative
C12_GridTilesNonNegative ==
    /\ C12_GridHolds
    /\ \A g \in DOMAIN rtPc :
          LET c == rtCall[g]
          IN  ( /\ rtPc[g] # "idle" /\ c.info # NilImage
                /\ c.z >= 0 /\ c.z <= c.maxZoom
                /\ c.x >= 0 /\ c.y >= 0
                /\ ~ ( c.x \in GridX(c.info, c.maxZoom, c.z)
                        /\ c.y \in GridY(c.info, c.maxZoom, c.z) ) )
              => BoundsRejected(TileBounds(c.info, c.maxZoom, c.z, c.x, c.y))

\* C13: every tile RenderTile renders is 256 x 256: the resized region is
\* at most 256 in each dimension, it is padded exactly when it is smaller
\* than 256 in some dimension, only tiles whose source rectangle was
\* clamped are padded, and the content lies at (0, 0) at its resized size.
C13_TileIs256Square ==
    \A g \in DOMAIN rtPc :
       (rtPc[g] = "ret" /\ rtResult[g].err = None /\ ~rtResult[g].hit)
         => LET t == rtResult[g].data[1]
                c == rtCall[g]
                ppt == PixelsPerTile(c.maxZoom, c.z)
            IN  /\ t.out.outW = 256 /\ t.out.outH = 256
                /\ t.w <= 256 /\ t.h <= 256
                /\ t.padded <=> (t.w < 256 \/ t.h < 256)
                /\ t.padded => (t.width < ppt \/ t.height < ppt)
                /\ t.out.left = 0 /\ t.out.top = 0
                /\ t.startX = c.x * ppt /\ t.startY = c.y * ppt

\* the last column of the 600 x 300 image at zoom 2 was rendered: 88 x 256
\* source pixels, padded on the right only
C13_Witness ==
    \E g \in DOMAIN rtPc :
       /\ rtPc[g] = "ret" /\ rtResult[g].err = None
       /\ rtCall[g].info.Width = 600 /\ rtCall[g].z = 2
       /\ rtCall[g].x = 2 /\ rtCall[g].y = 0
       /\ rtResult[g].data[1].w = 88 /\ rtResult[g].data[1].h = 256
       /\ rtResult[g].data[1].padded
       /\ rtResult[g].data[1].out.outW = 256

----------------------------------------------------------------------------
(* Claims about errors of the renderer *)

\* no image of the catalog has this identifier
Unknown(id) == \A i \in DOMAIN images : images[i].ID # id

\* C14: for an image identifier that is not in the catalog RenderTile and
\* GetImageMeta return the not-found error and nothing else, in the step
\* of the call, without building a cache key, taking a pipeline step or
\* changing the cache.
C14_UnknownImageNotFound ==
    [][ /\ \A g \in DOMAIN rtPc :
             (rtPc[g] = "idle" /\ rtPc'[g] # "idle" /\ Unknown(rtCall'[g].id))
               => /\ rtPc'[g] = "ret"
                  /\ rtResult'[g].err = "image not found"
                  /\ rtResult'[g].data = NoValue
                  /\ rtResult'[g].steps = <<>>
                  /\ ~rtResult'[g].hit
                  /\ rtCall'[g].key = NilKey
                  /\ items' = items /\ lruList' = lruList /\ fs' = fs
        /\ (rtMeta'.id # "" /\ Unknown(rtMeta'.id))
             => /\ rtMeta'.err = "image not found"
                /\ rtMeta'.width = 0 /\ rtMeta'.height = 0 /\ rtMeta'.format = ""
        /\ rtMeta' # rtMeta => (items' = items /\ lruList' = lruList /\ fs' = fs)
      ]_vars

\* both calls have returned not found for image zz while the cache holds a
\* tile of image a
C14_Witness ==
    /\ rtMeta.id = "zz" /\ rtMeta.err = "image not found"
    /\ \E g \in DOMAIN rtPc :
          /\ rtPc[g] = "ret" /\ rtCall[g].id = "zz"
          /\ rtResult[g].err = "image not found"
    /\ Len(lruList) = 1

\* what the pipeline may return for the call of goroutine g
PipelineOutcomes(g) ==
    { Pipeline(images, rtCall[g], f, e) : f \in Faults, e \in Encodings }

\* C15: what a RenderTile that rendered returns is what its pipeline
\* returned, whatever became of the cache write: with the tile encoded it
\* returns the complete bytes and no error, and when the cache does not
\* hold these bytes afterwards (the Set failed) the cache answers for every
\* key as it did before.
C15_SetFailureAbsorbed ==
    [][ \A g \in RtThreads :
          (rtPc[g] = "render" /\ rtPc'[g] = "ret")
            => /\ rtResult'[g] \in PipelineOutcomes(g)
               /\ rtResult'[g].err = None
                    => /\ Len(rtResult'[g].data) = 2
                       /\ rtResult'[g].size = 2
                       /\ rtResult'[g].data[2] \in Encodings
                       /\ (CacheValue(items', fs', rtCall[g].key) # rtResult'[g].data)
                            => ContentsOf(items', fs') = ContentsOf(items, fs)
      ]_vars

\* RenderTile has returned a tile whose Set failed in the middle of the
\* temporary write: the tile is not in the file cache, half of it is in
\* the temporary file
C15_Witness ==
    /\ cacheType = "file"
    /\ \E g \in RtThreads :
          /\ rtPc[g] = "ret" /\ rtResult[g].err = None /\ ~rtResult[g].hit
          /\ Len(rtResult[g].data) = 2
          /\ CacheValue(items, fs, rtCall[g].key) = NoValue
          /\ TmpPath(buildFilePath(rtCall[g].key)) \in DOMAIN fs
          /\ Len(fs[TmpPath(buildFilePath(rtCall[g].key))]) = 1

----------------------------------------------------------------------------
(* Claims about the cache directory *)

\* a Set of a key, or a restart, leaves the other tiles as they are
DirKeepsOthers ==
    /\ cLast'.op = "Set" =>
          \A k \in FileKeys : k # cLast'.key => FcGet(fs', k) = FcGet(fs, k)
    /\ (cLast'.op = "New" /\ lastStored' = lastStored) =>
          \A k \in FileKeys : FcGet(fs', k) = FcGet(fs, k)

\* C16: in the file cache, once a Set(k, v) has returned, every later
\* Get(k) hits and returns the value of the latest Set(k, _) that returned,
\* over further Sets of any key and restarts on the same directory, until
\* Clear is called; a Set evicts nothing and a restart removes nothing.
C16_GetHitsLastSet ==
    [][ /\ \A k \in FileKeys :
             lastSet'[k] # NoValue
               => FcGet(fs', k) = [found |-> TRUE, value |-> lastSet'[k]]
        /\ (cLast'.op = "Get" /\ lastSet'[cLast'.key] # NoValue)
             => (cLast'.found /\ cLast'.value = lastSet'[cLast'.key])
        /\ DirKeepsOthers
      ]_vars

\* C16 as amended: the same of the latest Set(k, _) whose rename succeeded.
C16_GetHitsLastStored ==
    [][ /\ \A k \in FileKeys :
             lastStored'[k] # NoValue
               => FcGet(fs', k) = [found |-> TRUE, value |-> lastStored'[k]]
        /\ (cLast'.op = "Get" /\ lastStored'[cLast'.key] # NoValue)
             => (cLast'.found /\ cLast'.value = lastStored'[cLast'.key])
        /\ DirKeepsOthers
      ]_vars

\* after a restart a Get has returned the bytes stored before it, a later
\* Set of the same key having failed and the other key being stored too
C16_Witness ==
    /\ clock = 1
    /\ cLast.op = "Get" /\ cLast.found
    /\ cLast.value = <<1>> /\ lastStored[cLast.key] = <<1>>
    /\ lastSet[cLast.key] = <<2>>
    /\ \A k \in FileKeys : lastStored[k] # NoValue

----------------------------------------------------------------------------
(* Claims about Set, Has and Clear *)

\* the keys of a recency list other than key, in their order
OtherKeys(lst, key) ==
    LET ks == [i \in 1 .. Len(lst) |-> lst[i].key]
    IN  SelectSeq(ks, LAMBDA k : k # key)

\* a step that is a Set of the memory cache for a key it holds
SetOfHeld ==
    /\ cacheType = "memory"
    /\ cLast'.op = "Set" /\ clock' = clock + 1
    /\ cLast'.key \in Held

\* C17: in the memory cache a Set(k, v) of a key already present stores v
\* under k, makes k the most recently used entry, evicts nothing even at
\* capacity, and leaves the number of entries, the other values and the
\* relative recency order of the other keys as they were.
C17_SetOfHeldKeyFrame ==
    [][ SetOfHeld =>
          LET k == cLast'.key
          IN  /\ items'[k].value = cLast'.value
              /\ McGet(items', lruList', k).value = cLast'.value
              /\ lruList'[1].key = k
              /\ \A j \in CacheKeys \ {k} : lastUse'[j] < lastUse'[k]
              /\ DOMAIN items' = DOMAIN items
              /\ Len(lruList') = Len(lruList)
              /\ cLast'.evicted = {}
              /\ \A j \in Held \ {k} : items'[j] = items[j]
              /\ OtherKeys(lruList', k) = OtherKeys(lruList, k)
              /\ \A j \in CacheKeys \ {k} : lastUse'[j] = lastUse[j]
      ]_vars

\* a full cache of three entries whose least recently used key was Set again:
\* it is now first and the two others kept their order
C17_Witness ==
    /\ cacheType = "memory" /\ maxSize = 3 /\ Len(lruList) = 3
    /\ cLast.op = "Set" /\ cLast.evicted = {}
    /\ lruList[1].key = cLast.key
    /\ lruList[1].value = <<2>>
    /\ lastSet[cLast.key] = <<2>>
    /\ clock = 4
    /\ lastUse[lruList[2].key] = 3 /\ lastUse[lruList[3].key] = 2

\* what Has reports agrees with what a Get in the same state would find
HasAgreesWithGet ==
    /\ cacheType = "memory" =>
          \A k \in CacheKeys : McHas(items, k) = McGet(items, lruList, k).found
    /\ cLast.op = "Has" =>
          cLast.found = (CacheValue(items, fs, cLast.key) # NoValue)

\* C18: every cache backend (memory, file, disabled) provides Has(k); it
\* returns true exactly when a Get(k) in the same state would report found
\* and leaves the cache as it was, recency order included.
C18_EveryBackendHas ==
    /\ "Has" \in MethodSet(cacheType)
    /\ HasAgreesWithGet

\* the memory cache alone: Has agrees with Get
C18_MemoryHas == HasAgreesWithGet

\* the memory cache alone: Has changes nothing of the cache
C18_MemoryHasFrame ==
    [][ cLast'.op = "Has" => UNCHANGED <<cacheVars, lastUse>> ]_vars

\* what a Get of key would find in this state
Finds(key) == CacheValue(items, fs, key) # NoValue

\* for the cache types given: a step that is a Clear leaves no key a Get
\* would find; a key no Get would find is found again only after a Set of
\* it; and the bytes a Set stores right after a Clear are read back
ClearEmpties(types) ==
    cacheType \in types =>
      /\ cLast'.op = "Clear" => \A k \in CacheKeys : ~Finds(k)'
      /\ \A k \in CacheKeys :
            (~Finds(k) /\ Finds(k)') => (cLast'.op = "Set" /\ cLast'.key = k)
      /\ (cLast.op = "Clear" /\ cLast'.op = "Set" /\ cLast'.found)
            => CacheValue(items', fs', cLast'.key) = cLast'.value

\* C19: after Clear on the memory or file cache, Get(k) misses for every
\* key until a later Set(k, _), however many entries were held and in
\* whatever order, and a Set after the Clear is readable again.
C19_ClearEmptiesCache == [][ ClearEmpties({"memory", "file"}) ]_vars

\* the memory cache alone
C19_MemoryClearEmpties == [][ ClearEmpties({"memory"}) ]_vars

----------------------------------------------------------------------------
(* Claims about the disabled cache *)

\* the whole pipeline of a tile, padded or not
FullPipeline(steps) ==
    \/ steps = <<"open", "extract", "resize", "encode">>
    \/ steps = <<"open", "extract", "resize", "pad", "encode">>

\* C20: with the disabled cache, after any Sets, Gets and Clears every Get
\* misses, so every RenderTile call of a known image goes on to the render
\* pipeline, and a tile it returns was rendered by the whole pipeline and
\* never came from a cache.
C20_DisabledCacheAlwaysRenders ==
    [][ /\ \A k \in RenderKeys : ~TileCacheGet(k).found'
        /\ cLast'.op = "Get" => ~cLast'.found
        /\ \A g \in NoopThreads :
              (rtPc[g] = "idle" /\ rtPc'[g] # "idle" /\ rtCall'[g].info # NilImage)
                => rtPc'[g] = "render"
        /\ \A g \in NoopThreads :
              (rtPc'[g] = "ret" /\ rtCall'[g].info # NilImage)
                => /\ rtPc[g] \in {"render", "ret"}
                   /\ ~rtResult'[g].hit
                   /\ rtResult'[g].err = None
                        => /\ FullPipeline(rtResult'[g].steps)
                           /\ rtResult'[g].data # lastSet'[rtCall'[g].key]
      ]_vars

\* a tile was Set and then looked up directly, which missed, and RenderTile
\* for the same tile has rendered and returned it
C20_Witness ==
    \E g \in NoopThreads :
       /\ cacheType = "disabled"
       /\ rtPc[g] = "ret" /\ rtResult[g].err = None /\ ~rtResult[g].hit
       /\ lastSet[rtCall[g].key] = <<2>>
       /\ cLast.op = "Get" /\ cLast.key = rtCall[g].key /\ ~cLast.found

----------------------------------------------------------------------------
(* Claims about the content tag *)

\* C21: the ETag RenderTile returns is a function of the TileKey alone: any
\* two successful calls that build the same key return the same ETag,
\* served from the cache or rendered, whatever the bytes; the tag is
\* generateETag of the key.
C21_ETagOfKeyAlone ==
    \A g, h \in RtThreads :
       ( /\ rtPc[g] = "ret" /\ rtResult[g].err = None
         /\ rtPc[h] = "ret" /\ rtResult[h].err = None
         /\ rtCall[g].key = rtCall[h].key )
       => /\ rtResult[g].etag = rtResult[h].etag
          /\ rtResult[g].etag = generateETag(rtCall[g].key)

\* two calls for one tile have returned different bytes, one from the cache
\* and one rendered, under the same tag
C21_Witness ==
    \E g, h \in RtThreads :
       /\ rtPc[g] = "ret" /\ rtResult[g].err = None /\ rtResult[g].hit
       /\ rtPc[h] = "ret" /\ rtResult[h].err = None /\ ~rtResult[h].hit
       /\ rtCall[g].key = rtCall[h].key
       /\ rtResult[g].data # rtResult[h].data
       /\ rtResult[g].etag = rtResult[h].etag

----------------------------------------------------------------------------
(* Claims about the memory cache under concurrent calls *)

\* the goroutine is at statements that write the recency list
Modifying(t) ==
    mcPc[t] \in {"Set", "Clear", "move1", "move2", "move3", "move4", "move5", "move6"}

\* the goroutine is at statements that read the index or the list
Reading(t) == mcPc[t] \in {"Has", "Get", "ret"}

\* C22: every memory cache operation that modifies the recency list, Get
\* included, runs holding the exclusive lock: no two goroutines modify the
\* list at the same time, and none modifies it while another reads or
\* modifies the cache.
C22_ListModifiedUnderExclusiveLock ==
    \A t \in DOMAIN mcPc :
       Modifying(t) =>
         /\ mcMu.writer = t
         /\ \A u \in DOMAIN mcPc \ {t} : ~Modifying(u) /\ ~Reading(u)

\* Set and Clear alone: they modify under the exclusive lock
C22_SetAndClearExclusive ==
    \A t \in DOMAIN mcPc :
       mcPc[t] \in {"Set", "Clear"} =>
         /\ mcMu.writer = t
         /\ \A u \in DOMAIN mcPc \ {t} : mcPc[u] = "idle"

\* the index its and the list of keys chain, whose length field is len,
\* describe the same entries
SameEntries(its, chain, len) ==
    /\ \A k \in DOMAIN its : its[k].key = k /\ \E i \in 1 .. Len(chain) : chain[i] = k
    /\ \A i \in 1 .. Len(chain) : chain[i] \in DOMAIN its
    /\ \A i, j \in 1 .. Len(chain) : chain[i] = chain[j] => i = j
    /\ Cardinality(DOMAIN its) = Len(chain)
    /\ len = Len(chain)

\* C23: once the Get, Set, Has and Clear calls made on the memory cache
\* have completed, the index and the recency list describe the same
\* entries: every key of the index is an element of the list carrying that
\* key, every element's key is in the index, no key is twice in the list,
\* and the two have equal size.
C23_IndexAndListAgree ==
    (\A t \in DOMAIN mcPc : mcPc[t] = "idle")
       => SameEntries(items, Chain(mcList), mcList.len)

\* the same of calls made one after the other
C23_IndexAndListAgreeInSequence ==
    cacheType = "memory"
       => SameEntries(items, [i \in 1 .. Len(lruList) |-> lruList[i].key], Len(lruList))

----------------------------------------------------------------------------
(* Claims about writers sharing the cache directory *)

\* C24: when writers Set the same tile in the file cache concurrently,
\* writers of two processes sharing the cache directory included, the final
\* path holds at every moment, and once they have finished, the complete
\* bytes of exactly one of them or nothing: a reader never sees a mixture
\* or a truncation of the payloads.
C24_FinalPathCompleteAcrossProcesses ==
    /\ FcGet(fs, ShKey).found => FcGet(fs, ShKey).value \in FileValues
    /\ (cLast.op = "Get" /\ cLast.found) => cLast.value \in FileValues

----------------------------------------------------------------------------
(* Claims about concurrent renders of one tile *)

\* goroutine h missed the cache on the key goroutine g is rendering, and is
\* rendering it too or has returned its own render of it
RendersSameTile(g, h) ==
    /\ g # h
    /\ rtPc[g] = "render"
    /\ rtPc[h] \in {"render", "ret"}
    /\ rtCall[h].key = rtCall[g].key
    /\ rtPc[h] = "ret" => (rtResult[h].err = None /\ ~rtResult[h].hit)

\* the bytes the render of h has returned, if it has
RenderedBy(h) == IF rtPc[h] = "ret" THEN {rtResult[h].data} ELSE {}

\* C25: two concurrent RenderTile calls for the same TileKey that both miss
\* the cache each run the whole pipeline and return a complete tile under
\* the same ETag; the cache then holds at most one entry for the key, with
\* the complete bytes of one of the two renders, and no other entry was
\* added or changed, an eviction apart.
C25_ConcurrentRendersOfOneTile ==
    [][ \A g, h \in RtThreads :
          (RendersSameTile(g, h) /\ rtPc'[g] = "ret" /\ rtResult'[g].err = None)
          => LET key == rtCall[g].key
             IN  /\ ~rtResult'[g].hit
                 /\ FullPipeline(rtResult'[g].steps)
                 /\ rtResult'[g].data[2] \in Encodings
                 /\ rtResult'[g].size = Len(rtResult'[g].data)
                 /\ rtResult'[g].etag = generateETag(key)
                 /\ rtPc[h] = "ret" => rtResult'[g].etag = rtResult[h].etag
                 /\ CacheValue(items, fs, key) \in {NoValue} \cup RenderedBy(h)
                 /\ CacheValue(items', fs', key) \in
                       {NoValue, rtResult'[g].data} \cup RenderedBy(h)
                 /\ Cardinality({ i \in 1 .. Len(lruList') : lruList'[i].key = key }) <= 1
                 /\ \A k \in RenderKeys \ {key} :
                       CacheValue(items', fs', k) \in {CacheValue(items, fs, k), NoValue}
      ]_vars

\* two calls for one tile both missed and rendered it, with different
\* bytes; the cache holds the bytes of one of them, and another tile too
C25_Witness ==
    \E g, h \in RtThreads :
       /\ g # h
       /\ rtPc[g] = "ret" /\ rtResult[g].err = None /\ ~rtResult[g].hit
       /\ rtPc[h] = "ret" /\ rtResult[h].err = None /\ ~rtResult[h].hit
       /\ rtCall[g].key = rtCall[h].key
       /\ rtResult[g].data # rtResult[h].data
       /\ rtResult[g].etag = rtResult[h].etag
       /\ CacheValue(items, fs, rtCall[g].key) = rtResult[g].data
       /\ \E k \in RenderKeys \ {rtCall[g].key} : CacheValue(items, fs, k) # NoValue

----------------------------------------------------------------------------
(* Claims about the tiles of the warmup *)

\* the tiles (z, x, y) of image img with 0 <= z <= min(L, maxZoom),
\* 0 <= x < ceil(width / ppt), 0 <= y < ceil(height / ppt)
WarmupGrid(img, L) ==
    LET M == CalculateMaxZoom(img.Width, img.Height)
    IN  { WarmupTile(img.ID, c[1], c[2], c[3]) :
            c \in { d \in (0 .. Min(L, M)) \X (0 .. img.Width \div TileSize)
                                          \X (0 .. img.Height \div TileSize) :
                      /\ d[2] * TileSize * Pow2(M - d[1]) < img.Width
                      /\ d[3] * TileSize * Pow2(M - d[1]) < img.Height } }

\* the source rectangle of warmup tile w is not empty and lies in its image
TileInsideImage(w) ==
    LET info == GetImageByID(images, w.id)
        M == CalculateMaxZoom(info.Width, info.Height)
        b == TileBounds(info, M, w.z, w.x, w.y)
    IN  /\ ~ZoomRejected(w.z, M)
        /\ ~BoundsRejected(b)
        /\ ExtractAreaOK(info, b)

\* what the warmup has submitted so far is in the grids, once each, all of
\* the grids once it has returned, and no task fails as out of range
WarmupCoversGrid ==
    LET grid == UNION { WarmupGrid(images[i], wuLevels) : i \in DOMAIN images }
    IN  wuPc # "off" =>
          /\ \A t \in Submitted : wuPlan[t] \in grid
          /\ \A t, u \in Submitted : wuPlan[t] = wuPlan[u] => t = u
          /\ \A w \in grid : TileInsideImage(w)
          /\ \A t \in DOMAIN rtPc :
                rtPc[t] = "ret" =>
                  rtResult[t].err \notin {"image not found", "zoom level exceeds max zoom",
                                          "invalid tile bounds"}
          /\ wuPc = "done" =>
                /\ { wuPlan[t] : t \in Submitted } = grid
                /\ \A t \in Submitted : wuTask[t] = "finished"

----------------------------------------------------------------------------
(* Claims about the resize *)

\* C27: in every successful RenderTile call the resize ratio
\* 256 / pixelsPerTile is greater than 0 and at most 1, and 1 exactly when
\* z = maxZoom: the extracted region is never upsampled.
C27_ResizeNeverUpsamples ==
    \A g \in DOMAIN rtPc :
       (rtPc[g] = "ret" /\ rtResult[g].err = None /\ ~rtResult[g].hit)
         => LET t == rtResult[g].data[1]
                c == rtCall[g]
                s == ResizeScale(PixelsPerTile(c.maxZoom, c.z))
            IN  /\ s.num > 0 /\ s.den > 0
                /\ s.num <= s.den
                /\ s.num = s.den <=> c.z = c.maxZoom
                /\ t.w <= t.width /\ t.h <= t.height
                /\ c.z = c.maxZoom => (t.w = t.width /\ t.h = t.height)
                /\ 2 * (s.den * t.w - s.num * t.width) <= s.den \/ t.w = 1
                /\ 2 * (s.den * t.h - s.num * t.height) <= s.den \/ t.h = 1

\* the tile of the second row of the 600 x 300 image at its maxZoom was
\* rendered: 256 x 44 source pixels, kept at 256 x 44
C27_Witness ==
    \E g \in DOMAIN rtPc :
       /\ rtPc[g] = "ret" /\ rtResult[g].err = None /\ ~rtResult[g].hit
       /\ rtCall[g].info.Width = 600 /\ rtCall[g].z = 2 /\ rtCall[g].maxZoom = 2
       /\ rtCall[g].x = 0 /\ rtCall[g].y = 1
       /\ rtResult[g].data[1].width = 256 /\ rtResult[g].data[1].w = 256
       /\ rtResult[g].data[1].height = 44 /\ rtResult[g].data[1].h = 44

----------------------------------------------------------------------------
(* Claims about the tile handler *)

\* key names a tile of the pyramid of an image of the catalog
InsidePyramid(key) ==
    \E i \in DOMAIN images :
       LET info == images[i]
           M == CalculateMaxZoom(info.Width, info.Height)
       IN  /\ key.ImageID = info.ID
           /\ key.TileSize = 256 /\ key.Format = "jpeg" /\ key.MaxZoom = M
           /\ 0 <= key.Z /\ key.Z <= M
           /\ key.X >= 0 /\ key.Y >= 0
           /\ key.X * 256 * Pow2(M - key.Z) < info.Width
           /\ key.Y * 256 * Pow2(M - key.Z) < info.Height

\* the identities of the pyramids of the catalog
PyramidKeys ==
    UNION { { TileKey(images[i].ID, 256, CalculateMaxZoom(images[i].Width, images[i].Height),
                      c[1], c[2], c[3], "jpeg") :
                c \in (0 .. CalculateMaxZoom(images[i].Width, images[i].Height))
                        \X (0 .. images[i].Width \div 256)
                        \X (0 .. images[i].Height \div 256) } :
            i \in DOMAIN images }

RequestedIdentity(r) ==
    LET info == GetImageByID(images, r.id)
    IN  TileKey(r.id, 256, CalculateMaxZoom(info.Width, info.Height), r.z, r.x,
                r.y, FormatOf(r.ext))

\* C30: for every tile request the handler accepts (jpg, jpeg or webp) the
\* Content-Type of the response names the encoding of the bytes returned,
\* and the content tag is that of the identity with the requested format,
\* so the same tile in two formats shares neither cache entry nor tag.
C30_ResponseFollowsRequestedFormat ==
    \A g \in HttpThreads :
       (rtPc[g] = "idle" /\ httpResp[g].status = 200)
         => /\ httpReq[g].method = "GET"
                 => httpResp[g].contentType = "image/" \o httpResp[g].body[1].codec
            /\ httpResp[g].etag = "\"" \o generateETag(RequestedIdentity(httpReq[g])) \o "\""
            /\ \A k \in DOMAIN items :
                  items[k].value = httpResp[g].body => k = RequestedIdentity(httpReq[g])

----------------------------------------------------------------------------
(* Claims about the rescan *)

\* the images the catalog held before the uploads and holds after them
StableIDs == { Catalog[i].ID : i \in DOMAIN Catalog }

\* C29: while a rescan runs beside tile requests, an image that is in the
\* catalog before and after the rescan is always found: GetImageByID is
\* never absent, GetImagePathByID never empty, and RenderTile never fails
\* with not-found for it.
C29_StableImageAlwaysFound ==
    /\ \A id \in StableIDs :
          /\ GetImageByID(images, id) # NilImage
          /\ GetImagePathByID(images, id) # ""
    /\ \A g \in DOMAIN rtPc :
          (rtPc[g] = "ret" /\ rtCall[g].id \in StableIDs)
            => rtResult[g].err \notin {"image not found", "image path not found"}

============================================================================
